---------------------------- MODULE Spec2Model ----------------------------
(***************************************************************************)
(* bash-to-powershell: the lexer (lexer.ts), the parser (parser.ts), the   *)
(* transformer (transformer.ts), the command translators and the          *)
(* orchestrator (index.ts) as a state machine.  Strings are TLA+ strings;  *)
(* indices are 0-based as in the source.                                   *)
(***************************************************************************)
EXTENDS Integers, Sequences, FiniteSets, TLC

VARIABLES
  pc,        \* where the current call stands: idle, lex, parse, translate, done
  api,       \* the entry point called: "transpile" or "transpileWithMeta"
  bash,      \* the argument of the current call
  tools,     \* options.availableTools of the current call
  i,         \* lex: the scan position
  tokens,    \* lex: the tokens pushed so far
  pos,       \* parse: the index of the next token
  body,      \* parseScript: the statements of the top-level script so far
  ctx,       \* the TransformContext of the current call
  result,    \* what the last call returned (NoResult before the first return)
  kept,      \* a result of an earlier call the caller still holds
  arrays,    \* the arrays results refer to, by identity
  cached,    \* fallback.ts: the module variable cached, <<>> for null
  host       \* the commands `where` finds, and what the callers have seen:
             \* the probes run since the last reset, the last call of the
             \* API and what the last detectTools returned

vars == <<pc, api, bash, tools, i, tokens, pos, body, ctx, result, kept, arrays, cached,
          host>>

(***************************************************************************)
(* Strings                                                                 *)
(***************************************************************************)

\* input[k], "" (undefined) outside the string
Ch(s, k) == IF k >= 0 /\ k < Len(s) THEN SubSeq(s, k + 1, k + 1) ELSE ""

\* s.slice(a, b) for 0 <= a, b
Slice(s, a, b) == IF a >= b \/ a >= Len(s) THEN ""
                  ELSE SubSeq(s, a + 1, IF b > Len(s) THEN Len(s) ELSE b)

\* s.slice(a)
SliceFrom(s, a) == Slice(s, a, Len(s))

StartsWith(s, p) == Len(p) <= Len(s) /\ SubSeq(s, 1, Len(p)) = p

EndsWith(s, p) == Len(p) <= Len(s) /\ SubSeq(s, Len(s) - Len(p) + 1, Len(s)) = p

RECURSIVE IndexFrom(_, _, _)
\* s.indexOf(p, k), -1 when absent
IndexFrom(s, p, k) ==
  IF k + Len(p) > Len(s) THEN -1
  ELSE IF Slice(s, k, k + Len(p)) = p THEN k
  ELSE IndexFrom(s, p, k + 1)

IndexOf(s, p) == IndexFrom(s, p, 0)

\* s.includes(p)
Contains(s, p) == \E k \in 0..(Len(s) - Len(p)) : Slice(s, k, k + Len(p)) = p

RECURSIVE ReplaceAll(_, _, _)
\* s.replace(/p/g, r) for a literal, non-empty p
ReplaceAll(s, p, r) ==
  LET k == IndexOf(s, p)
  IN IF k < 0 THEN s
     ELSE Slice(s, 0, k) \o r \o ReplaceAll(SliceFrom(s, k + Len(p)), p, r)

RECURSIVE JoinWith(_, _)
\* seq.join(sep)
JoinWith(seq, sep) ==
  IF Len(seq) = 0 THEN ""
  ELSE IF Len(seq) = 1 THEN seq[1]
  ELSE seq[1] \o sep \o JoinWith(Tail(seq), sep)

RECURSIVE SplitOn(_, _)
\* s.split(sep) for a one-character sep
SplitOn(s, sep) ==
  LET k == IndexOf(s, sep)
  IN IF k < 0 THEN <<s>>
     ELSE <<Slice(s, 0, k)>> \o SplitOn(SliceFrom(s, k + 1), sep)

Digits == {"0", "1", "2", "3", "4", "5", "6", "7", "8", "9"}
Lower == {"a", "b", "c", "d", "e", "f", "g", "h", "i", "j", "k", "l", "m",
          "n", "o", "p", "q", "r", "s", "t", "u", "v", "w", "x", "y", "z"}
Upper == {"A", "B", "C", "D", "E", "F", "G", "H", "I", "J", "K", "L", "M",
          "N", "O", "P", "Q", "R", "S", "T", "U", "V", "W", "X", "Y", "Z"}

DigitVal(c) == CASE c = "0" -> 0 [] c = "1" -> 1 [] c = "2" -> 2 [] c = "3" -> 3
                 [] c = "4" -> 4 [] c = "5" -> 5 [] c = "6" -> 6 [] c = "7" -> 7
                 [] c = "8" -> 8 [] OTHER -> 9

DigitStr(n) == CASE n = 0 -> "0" [] n = 1 -> "1" [] n = 2 -> "2" [] n = 3 -> "3"
                 [] n = 4 -> "4" [] n = 5 -> "5" [] n = 6 -> "6" [] n = 7 -> "7"
                 [] n = 8 -> "8" [] OTHER -> "9"

\* The backtick (U+0060), PowerShell's escape character.  A TLA+ string
\* literal cannot hold it, so the model writes it as the acute accent.
BT == "´"

\* the value of a field no assignment has set (undefined)
NoFd == -1
\* parseInt of a string that does not start with a digit
NaN == -2

RECURSIVE ParseDigits(_, _)
ParseDigits(s, acc) ==
  IF s = "" \/ Ch(s, 0) \notin Digits THEN acc
  ELSE ParseDigits(SliceFrom(s, 1), acc * 10 + DigitVal(Ch(s, 0)))

\* parseInt(s, 10) for a string of digits
ParseInt(s) == IF Ch(s, 0) \in Digits THEN ParseDigits(s, 0) ELSE NaN

RECURSIVE NatStr(_)
NatStr(n) == IF n < 10 THEN DigitStr(n) ELSE NatStr(n \div 10) \o DigitStr(n % 10)

\* `${n}` for a number
NumStr(n) == IF n = NaN THEN "NaN"
             ELSE IF n < 0 THEN "-" \o NatStr(0 - n) ELSE NatStr(n)

(***************************************************************************)
(* Lexer (lexer.ts)                                                        *)
(***************************************************************************)

META == {"|", "&", ";", "(", ")", "<", ">", " ", "\t", "\n", "\r"}
VAR_START == Lower \cup Upper \cup {"_"}
VAR_BODY == VAR_START \cup Digits
SPECIAL_VAR == {"?", "#", "!", "$", "@"} \cup Digits

Token(type, value, fd, targetFd) ==
  [type |-> type, value |-> value, fd |-> fd, targetFd |-> targetFd]

Tok(type, value) == Token(type, value, NoFd, NoFd)

RECURSIVE ScanUntil(_, _, _)
\* while (k < len && input[k] is not in stop) k++
ScanUntil(s, k, stop) ==
  IF k < Len(s) /\ Ch(s, k) \notin stop THEN ScanUntil(s, k + 1, stop) ELSE k

RECURSIVE ScanWhile(_, _, _)
\* while (k < len && input[k] is in set) k++
ScanWhile(s, k, set) ==
  IF k < Len(s) /\ Ch(s, k) \in set THEN ScanWhile(s, k + 1, set) ELSE k

readSingleQuoted(s, i0) ==
  LET k == ScanUntil(s, i0 + 1, {"'"})
  IN [i |-> IF k < Len(s) THEN k + 1 ELSE k, value |-> Slice(s, i0 + 1, k)]

RECURSIVE readDoubleQuotedSlow(_, _, _)
readDoubleQuotedSlow(s, k, value) ==
  IF k >= Len(s) THEN [i |-> k, value |-> value]
  ELSE IF Ch(s, k) = "\"" THEN [i |-> k + 1, value |-> value]
  ELSE IF Ch(s, k) = "\\" /\ k + 1 < Len(s)
          /\ Ch(s, k + 1) \in {"\"", "\\", "$", BT, "\n"}
       THEN IF Ch(s, k + 1) = "\n"
            THEN readDoubleQuotedSlow(s, k + 2, value)
            ELSE readDoubleQuotedSlow(s, k + 2, value \o Ch(s, k + 1))
  ELSE readDoubleQuotedSlow(s, k + 1, value \o Ch(s, k))

readDoubleQuoted(s, i0) ==
  LET k == ScanUntil(s, i0 + 1, {"\"", "\\"})
  IN IF k < Len(s) /\ Ch(s, k) = "\""
     THEN [i |-> k + 1, value |-> Slice(s, i0 + 1, k)]
     ELSE readDoubleQuotedSlow(s, k, Slice(s, i0 + 1, k))

\* Characters a TLA+ string cannot hold or show are written with Latin-1
\* stand-ins; the inputs of the model are ASCII.
NUL == "¤"
BEL == "¢"
BS == "£"
ESC == "¥"
\* any other character below 32, and 127
CTL == "¦"
\* any character above 127
HIGH == "¿"

\* the characters /[\x00-\x1f\x7f]/ matches
CONTROL == {NUL, BEL, BS, ESC, CTL, "\t", "\n", "\r"}

\* the characters of codes 32 to 126
PRINTABLE ==
  " !\"#$%&'()*+,-./0123456789:;<=>?@ABCDEFGHIJKLMNOPQRSTUVWXYZ[\\]^_" \o BT
  \o "abcdefghijklmnopqrstuvwxyz{|}~"

\* String.fromCharCode(n)
fromCharCode(n) ==
  CASE n = 0 -> NUL [] n = 7 -> BEL [] n = 8 -> BS [] n = 9 -> "\t"
    [] n = 10 -> "\n" [] n = 13 -> "\r" [] n = 27 -> ESC
    [] n \in 1..31 \ {7, 8, 9, 10, 13, 27} -> CTL
    [] n = 127 -> CTL
    [] n \in 32..126 -> Ch(PRINTABLE, n - 32)
    [] OTHER -> HIGH

OCTAL == {"0", "1", "2", "3", "4", "5", "6", "7"}
HEX == Digits \cup {"a", "b", "c", "d", "e", "f", "A", "B", "C", "D", "E", "F"}

HexVal(c) == CASE c \in Digits -> DigitVal(c)
               [] c \in {"a", "A"} -> 10 [] c \in {"b", "B"} -> 11
               [] c \in {"c", "C"} -> 12 [] c \in {"d", "D"} -> 13
               [] c \in {"e", "E"} -> 14 [] OTHER -> 15

RECURSIVE ParseRadix(_, _, _)
\* parseInt(s, radix) for a string of digits of that radix
ParseRadix(s, radix, acc) ==
  IF s = "" THEN acc
  ELSE ParseRadix(SliceFrom(s, 1), radix, acc * radix + HexVal(Ch(s, 0)))

RECURSIVE readDollarSingleQuotedLoop(_, _, _)
readDollarSingleQuotedLoop(s, k, value) ==
  IF k >= Len(s) THEN [i |-> k, value |-> value]
  ELSE IF Ch(s, k) = "'" THEN [i |-> k + 1, value |-> value]
  ELSE IF Ch(s, k) = "\\"
       THEN IF k + 1 >= Len(s) THEN [i |-> k + 1, value |-> value]
            ELSE LET esc == Ch(s, k + 1)
                 IN CASE esc = "n" -> readDollarSingleQuotedLoop(s, k + 2, value \o "\n")
                      [] esc = "t" -> readDollarSingleQuotedLoop(s, k + 2, value \o "\t")
                      [] esc = "r" -> readDollarSingleQuotedLoop(s, k + 2, value \o "\r")
                      [] esc = "a" -> readDollarSingleQuotedLoop(s, k + 2, value \o BEL)
                      [] esc = "b" -> readDollarSingleQuotedLoop(s, k + 2, value \o BS)
                      [] esc \in {"e", "E"} ->
                           readDollarSingleQuotedLoop(s, k + 2, value \o ESC)
                      [] esc = "0" ->
                           LET e == ScanWhile(Slice(s, 0, k + 5), k + 2, OCTAL)
                               oct == Slice(s, k + 2, e)
                           IN readDollarSingleQuotedLoop(s, e,
                                value \o (IF oct # "" THEN fromCharCode(ParseRadix(oct, 8, 0))
                                          ELSE NUL))
                      [] esc = "x" ->
                           LET e == ScanWhile(Slice(s, 0, k + 4), k + 2, HEX)
                               hex == Slice(s, k + 2, e)
                           IN readDollarSingleQuotedLoop(s, e,
                                IF hex # "" THEN value \o fromCharCode(ParseRadix(hex, 16, 0))
                                ELSE value)
                      [] esc = "u" ->
                           LET e == ScanWhile(Slice(s, 0, k + 6), k + 2, HEX)
                               hex == Slice(s, k + 2, e)
                           IN readDollarSingleQuotedLoop(s, e,
                                IF hex # "" THEN value \o fromCharCode(ParseRadix(hex, 16, 0))
                                ELSE value)
                      [] OTHER -> readDollarSingleQuotedLoop(s, k + 2, value \o esc)
  ELSE readDollarSingleQuotedLoop(s, k + 1, value \o Ch(s, k))

readDollarSingleQuoted(s, i0) == readDollarSingleQuotedLoop(s, i0 + 2, "")

RECURSIVE readCommandSubstitutionDQ(_, _, _)
\* inside "..." of a $( ): until the closing quote
readCommandSubstitutionDQ(s, k, content) ==
  IF k >= Len(s) THEN [i |-> k, value |-> content]
  ELSE IF Ch(s, k) = "\\" /\ k + 1 < Len(s) /\ Ch(s, k + 1) \in {"\"", "\\"}
       THEN readCommandSubstitutionDQ(s, k + 2, content \o Ch(s, k) \o Ch(s, k + 1))
  ELSE IF Ch(s, k) = "\"" THEN [i |-> k + 1, value |-> content \o "\""]
  ELSE readCommandSubstitutionDQ(s, k + 1, content \o Ch(s, k))

RECURSIVE readCommandSubstitutionLoop(_, _, _, _)
readCommandSubstitutionLoop(s, k, depth, content) ==
  IF ~(k < Len(s) /\ depth > 0) THEN [i |-> k, value |-> content]
  ELSE LET c == Ch(s, k)
       IN IF c = "(" THEN readCommandSubstitutionLoop(s, k + 1, depth + 1, content \o c)
          ELSE IF c = ")"
               THEN IF depth - 1 = 0 THEN [i |-> k + 1, value |-> content]
                    ELSE readCommandSubstitutionLoop(s, k + 1, depth - 1, content \o c)
          ELSE IF c = "'"
               THEN LET e == ScanUntil(s, k + 1, {"'"})
                    IN IF e < Len(s)
                       THEN readCommandSubstitutionLoop(s, e + 1, depth,
                              content \o "'" \o Slice(s, k + 1, e) \o "'")
                       ELSE readCommandSubstitutionLoop(s, e, depth,
                              content \o "'" \o Slice(s, k + 1, e))
          ELSE IF c = "\""
               THEN LET q == readCommandSubstitutionDQ(s, k + 1, content \o "\"")
                    IN readCommandSubstitutionLoop(s, q.i, depth, q.value)
          ELSE readCommandSubstitutionLoop(s, k + 1, depth, content \o c)

readCommandSubstitution(s, i0) == readCommandSubstitutionLoop(s, i0 + 2, 1, "")

\* the conditions on which an unquoted segment ends before input[k]
UnquotedBreak(s, k) ==
  LET c == Ch(s, k)
      next == Ch(s, k + 1)
  IN \/ c \in META
     \/ c \in {"'", "\""}
     \/ /\ c = "$"
        /\ k + 1 < Len(s)
        /\ next \in {"(", "'", "{"} \cup VAR_START \cup SPECIAL_VAR

\* after a backslash at k - 1: the escaped character, then a newline, are consumed
BackslashEscape(s, k, value) ==
  LET taken == k < Len(s) /\ Ch(s, k) # "\n"
      k1 == IF taken THEN k + 1 ELSE k
      k2 == IF k1 < Len(s) /\ Ch(s, k1) = "\n" THEN k1 + 1 ELSE k1
  IN [i |-> k2, value |-> IF taken THEN value \o Ch(s, k) ELSE value]

RECURSIVE readUnquotedSegmentConcat(_, _, _)
readUnquotedSegmentConcat(s, k, value) ==
  IF k >= Len(s) \/ UnquotedBreak(s, k) THEN [i |-> k, value |-> value]
  ELSE IF Ch(s, k) = "\\"
       THEN LET e == BackslashEscape(s, k + 1, value)
            IN readUnquotedSegmentConcat(s, e.i, e.value)
  ELSE readUnquotedSegmentConcat(s, k + 1, value \o Ch(s, k))

RECURSIVE readUnquotedSegmentScan(_, _)
readUnquotedSegmentScan(s, k) ==
  IF k >= Len(s) \/ UnquotedBreak(s, k) \/ Ch(s, k) = "\\" THEN k
  ELSE readUnquotedSegmentScan(s, k + 1)

readUnquotedSegment(s, i0) ==
  LET k == readUnquotedSegmentScan(s, i0)
  IN IF k < Len(s) /\ ~UnquotedBreak(s, k)
     THEN LET e == BackslashEscape(s, k + 1, Slice(s, i0, k))
          IN readUnquotedSegmentConcat(s, e.i, e.value)
     ELSE [i |-> k, value |-> Slice(s, i0, k)]

\* the token readWord returns when its loop ends at k
WordRead(k, fullValue, hasSingleQuote, hasDoubleQuote, hasDollarSingle) ==
  [i |-> k,
   type |-> IF hasDollarSingle THEN "DollarSingleQuoted"
            ELSE IF hasSingleQuote /\ ~hasDoubleQuote THEN "SingleQuoted"
            ELSE IF hasDoubleQuote THEN "DoubleQuoted"
            ELSE "Word",
   value |-> fullValue]

RECURSIVE readWordLoop(_, _, _, _, _, _), readWordUnquoted(_, _, _, _, _, _)

\* the end of a pass of the loop of readWord that read the unquoted segment seg
readWordUnquoted(s, seg, fullValue, hasSingleQuote, hasDoubleQuote, hasDollarSingle) ==
  IF seg.value = "" /\ seg.i < Len(s) /\ Ch(s, seg.i) \notin META
  THEN readWordLoop(s, seg.i + 1, fullValue \o Ch(s, seg.i),
                    hasSingleQuote, hasDoubleQuote, hasDollarSingle)
  ELSE IF seg.value = ""
  THEN WordRead(seg.i, fullValue, hasSingleQuote, hasDoubleQuote, hasDollarSingle)
  ELSE readWordLoop(s, seg.i, fullValue \o seg.value,
                    hasSingleQuote, hasDoubleQuote, hasDollarSingle)

readWordLoop(s, k, fullValue, hasSingleQuote, hasDoubleQuote, hasDollarSingle) ==
  LET c == Ch(s, k)
      next == Ch(s, k + 1)
  IN IF k >= Len(s) \/ c \in META
     THEN WordRead(k, fullValue, hasSingleQuote, hasDoubleQuote, hasDollarSingle)
     ELSE IF c = "'"
          THEN LET r == readSingleQuoted(s, k)
               IN readWordLoop(s, r.i, fullValue \o r.value, TRUE, hasDoubleQuote,
                               hasDollarSingle)
     ELSE IF c = "\""
          THEN LET r == readDoubleQuoted(s, k)
               IN readWordLoop(s, r.i, fullValue \o r.value, hasSingleQuote, TRUE,
                               hasDollarSingle)
     ELSE IF c = "$" /\ k + 1 < Len(s) /\ next = "'"
          THEN LET r == readDollarSingleQuoted(s, k)
               IN readWordLoop(s, r.i, fullValue \o r.value, hasSingleQuote,
                               hasDoubleQuote, TRUE)
     ELSE IF c = "$" /\ k + 1 < Len(s) /\ next = "("
          THEN LET r == readCommandSubstitution(s, k)
               IN readWordLoop(s, r.i, fullValue \o "$(" \o r.value \o ")",
                               hasSingleQuote, hasDoubleQuote, hasDollarSingle)
     ELSE IF c = "$" /\ k + 1 < Len(s) /\ next = "{"
          THEN LET e == ScanUntil(s, k + 2, {"}"})
               IN readWordLoop(s, IF e < Len(s) THEN e + 1 ELSE e,
                               fullValue \o "${" \o Slice(s, k + 2, e) \o "}",
                               hasSingleQuote, hasDoubleQuote, hasDollarSingle)
     ELSE IF c = "$" /\ k + 1 < Len(s) /\ next \in VAR_START \cup SPECIAL_VAR
          THEN LET e == IF next \in SPECIAL_VAR /\ next \notin VAR_START
                        THEN k + 2
                        ELSE ScanWhile(s, k + 1, VAR_BODY)
               IN readWordLoop(s, e, fullValue \o "$" \o Slice(s, k + 1, e),
                               hasSingleQuote, hasDoubleQuote, hasDollarSingle)
     ELSE readWordUnquoted(s, readUnquotedSegment(s, k), fullValue,
                           hasSingleQuote, hasDoubleQuote, hasDollarSingle)

readWord(s, i0) == readWordLoop(s, i0, "", FALSE, FALSE, FALSE)

BLANK == {" ", "\t"}

\* The redirect operator at k the lexer reads a target word after: the
\* type, the value and the fd of its token and its length; type "" when
\* there is none at k.
RedirectOperator(s, k) ==
  LET c == Ch(s, k)
      next == Ch(s, k + 1)
      after == Ch(s, k + 2)
      op(type, value, fd, len) == [type |-> type, value |-> value, fd |-> fd, len |-> len]
      none == op("", "", NoFd, 0)
  IN IF c \in Digits /\ k + 1 < Len(s) /\ next \in {">", "<"}
     THEN IF next = ">" /\ after = ">" THEN op("RedirectAppend", ">>", DigitVal(c), 3)
          ELSE IF next = ">" /\ after = "&" THEN none
          ELSE IF next = ">" THEN op("RedirectOut", ">", DigitVal(c), 2)
          ELSE op("RedirectIn", "<", DigitVal(c), 2)
     ELSE IF c = "<" /\ next = "<"
     THEN IF after = "<" THEN op("HereString", "<<<", NoFd, 3) ELSE none
     ELSE IF c = ">"
     THEN IF next = ">" THEN op("RedirectAppend", ">>", NoFd, 2)
          ELSE IF next = "&" THEN none
          ELSE op("RedirectOut", ">", NoFd, 1)
     ELSE IF c = "<" THEN op("RedirectIn", "<", NoFd, 1)
     ELSE none

\* the word readWord read is pushed: after the redirect operator op as its
\* target, or on its own when it is not empty
pushWord(toks, op, word) ==
  [i |-> word.i,
   tokens |-> IF op.type # ""
              THEN toks \o <<Token(op.type, op.value, op.fd, NoFd),
                             Tok(word.type, word.value)>>
              ELSE IF word.value # "" THEN Append(toks, Tok(word.type, word.value))
              ELSE toks]

\* `N>&M`: the digits after the ampersand are the target descriptor
RedirectDup(s, k, toks, fd) ==
  LET e == ScanWhile(s, k, Digits)
  IN [i |-> e,
      tokens |-> Append(toks, Token("RedirectOut", ">", fd, ParseInt(Slice(s, k, e))))]

\* line.replace(/^\t+/, '')
StripLeadingTabs(line) == SliceFrom(line, ScanWhile(line, 0, {"\t"}))

RECURSIVE readHereDocBody(_, _, _, _, _)
readHereDocBody(s, k, delimiter, stripTabs, hbody) ==
  IF k >= Len(s) THEN [i |-> k, value |-> hbody]
  ELSE LET e == ScanUntil(s, k, {"\n"})
           line == Slice(s, k, e)
           k1 == IF e < Len(s) THEN e + 1 ELSE e
           trimmedLine == IF stripTabs THEN StripLeadingTabs(line) ELSE line
       IN IF trimmedLine = delimiter THEN [i |-> k1, value |-> hbody]
          ELSE readHereDocBody(s, k1, delimiter, stripTabs, hbody \o line \o "\n")

\* the HereDoc token pushed for the body b read by readHereDocBody
pushHereDoc(toks, b, quoted) ==
  [i |-> b.i,
   tokens |-> Append(toks, Token("HereDoc",
                                 IF EndsWith(b.value, "\n")
                                 THEN Slice(b.value, 0, Len(b.value) - 1)
                                 ELSE b.value,
                                 IF quoted THEN 0 ELSE 1, NoFd))]

\* `<<` at k: the delimiter, the rest of the operator's line, the body
readHereDoc(s, k, toks) ==
  LET stripTabs == k + 2 < Len(s) /\ Ch(s, k + 2) = "-"
      k1 == ScanWhile(s, IF stripTabs THEN k + 3 ELSE k + 2, BLANK)
      q == Ch(s, k1)
      quoted == k1 < Len(s) /\ q \in {"'", "\""}
      dEnd == IF quoted THEN ScanUntil(s, k1 + 1, {q})
              ELSE ScanUntil(s, k1, {"\n", " ", "\t"})
      delimiter == IF quoted THEN Slice(s, k1 + 1, dEnd) ELSE Slice(s, k1, dEnd)
      nl == ScanUntil(s, IF quoted /\ dEnd < Len(s) THEN dEnd + 1 ELSE dEnd, {"\n"})
  IN pushHereDoc(toks,
                 readHereDocBody(s, IF nl < Len(s) THEN nl + 1 ELSE nl, delimiter,
                                 stripTabs, ""),
                 quoted)

\* One iteration of the main loop of lex once the blanks are skipped: k is
\* the position after them.
lexAt(s, k, toks) ==
  LET c == Ch(s, k)
      next == Ch(s, k + 1)
      last == IF Len(toks) > 0 THEN toks[Len(toks)].type ELSE "none"
      op == RedirectOperator(s, k)
  IN IF k >= Len(s) THEN [i |-> k, tokens |-> toks]
     ELSE IF c = "#" THEN [i |-> ScanUntil(s, k, {"\n"}), tokens |-> toks]
     ELSE IF c = "\n"
          THEN [i |-> k + 1,
                tokens |-> IF last \notin {"none", "Semi", "And", "Or", "Pipe", "Newline"}
                           THEN Append(toks, Tok("Newline", "\n"))
                           ELSE toks]
     ELSE IF c = "|"
          THEN IF next = "|" THEN [i |-> k + 2, tokens |-> Append(toks, Tok("Or", "||"))]
               ELSE [i |-> k + 1, tokens |-> Append(toks, Tok("Pipe", "|"))]
     ELSE IF c = "&"
          THEN IF next = "&" THEN [i |-> k + 2, tokens |-> Append(toks, Tok("And", "&&"))]
               ELSE [i |-> k + 1, tokens |-> Append(toks, Tok("Background", "&"))]
     ELSE IF c = ";" THEN [i |-> k + 1, tokens |-> Append(toks, Tok("Semi", ";"))]
     ELSE IF c = "(" THEN [i |-> k + 1, tokens |-> Append(toks, Tok("LeftParen", "("))]
     ELSE IF c = ")" THEN [i |-> k + 1, tokens |-> Append(toks, Tok("RightParen", ")"))]
     ELSE IF c \in Digits /\ k + 1 < Len(s) /\ next = ">" /\ Ch(s, k + 2) = "&"
          THEN RedirectDup(s, k + 3, toks, DigitVal(c))
     ELSE IF c = "<" /\ next = "<" /\ Ch(s, k + 2) # "<" THEN readHereDoc(s, k, toks)
     ELSE IF c = ">" /\ next = "&" THEN RedirectDup(s, k + 2, toks, 1)
     ELSE pushWord(toks, op,
                   readWord(s, IF op.type # "" THEN ScanWhile(s, k + op.len, BLANK)
                               ELSE k))

\* One iteration of the main loop of lex, entered with i0 < len: the position
\* and the tokens at the end of the iteration.
lexIteration(s, i0, toks) == lexAt(s, ScanWhile(s, i0, BLANK), toks)

RECURSIVE lexFrom(_, _, _)

\* the iterations after one that ended as r
lexNext(s, k, toks, r) ==
  IF r.i = k THEN [st |-> "hang", tokens |-> toks] ELSE lexFrom(s, r.i, r.tokens)

\* lex run to its end: st = "hang" when an iteration leaves the position as
\* it was (the loop then repeats that iteration for ever)
lexFrom(s, k, toks) ==
  IF k >= Len(s) THEN [st |-> "ok", tokens |-> Append(toks, Tok("EOF", ""))]
  ELSE lexNext(s, k, toks, lexIteration(s, k, toks))

\* lex(input), as the nested call in translateCommandSub makes it
lex(s) == lexFrom(s, 0, <<>>)

(***************************************************************************)
(* Parser (parser.ts)                                                      *)
(***************************************************************************)

null == [type |-> "null"]

EOF_TOKEN == Tok("EOF", "")

peek(t, p) == IF p < Len(t) THEN t[p + 1] ELSE EOF_TOKEN

\* the position after advance()
advance(t, p) == IF p < Len(t) THEN p + 1 ELSE p

isAtEnd(t, p) == p >= Len(t) \/ t[p + 1].type = "EOF"

isSeparator(tok) == tok.type \in {"Semi", "Newline"}

isOperator(tok) == tok.type \in {"And", "Or"} \/ isSeparator(tok)

RECURSIVE skipNewlines(_, _)
skipNewlines(t, p) ==
  IF p < Len(t) /\ t[p + 1].type = "Newline" THEN skipNewlines(t, p + 1) ELSE p

RECURSIVE skipSeparators(_, _)
\* while (isSeparator(peek())) { advance(); skipNewlines(); }
skipSeparators(t, p) ==
  IF isSeparator(peek(t, p)) THEN skipSeparators(t, skipNewlines(t, advance(t, p)))
  ELSE p

LiteralPart(value, quoting) == [type |-> "Literal", value |-> value, quoting |-> quoting]
VariablePart(name, braced) == [type |-> "Variable", name |-> name, braced |-> braced]
CommandSubstitutionPart(command) == [type |-> "CommandSubstitution", command |-> command]
WordNode(parts) == [type |-> "Word", parts |-> parts]

RECURSIVE SubstitutionEnd(_, _, _)
\* the index of the parenthesis closing a $( whose content starts at k, or
\* the length of the value; quotes are not looked at
SubstitutionEnd(value, k, depth) ==
  IF k >= Len(value) THEN k
  ELSE IF Ch(value, k) = "(" THEN SubstitutionEnd(value, k + 1, depth + 1)
  ELSE IF Ch(value, k) = ")"
       THEN IF depth - 1 = 0 THEN k ELSE SubstitutionEnd(value, k + 1, depth - 1)
  ELSE SubstitutionEnd(value, k + 1, depth)

flushLiteral(value, quoting, k, litStart, parts) ==
  IF k > litStart THEN Append(parts, LiteralPart(Slice(value, litStart, k), quoting))
  ELSE parts

RECURSIVE parseWordPartsLoop(_, _, _, _, _)
parseWordPartsLoop(value, quoting, k, litStart, parts) ==
  LET next == Ch(value, k + 1)
      flushed == flushLiteral(value, quoting, k, litStart, parts)
  IN IF k >= Len(value)
     THEN IF Len(flushed) > 0 THEN flushed ELSE <<LiteralPart("", quoting)>>
     ELSE IF Ch(value, k) # "$" \/ k + 1 >= Len(value)
     THEN parseWordPartsLoop(value, quoting, k + 1, litStart, parts)
     ELSE IF next = "("
     THEN LET e == SubstitutionEnd(value, k + 2, 1)
              k1 == IF e < Len(value) THEN e + 1 ELSE e
          IN parseWordPartsLoop(value, quoting, k1, k1,
               Append(flushed, CommandSubstitutionPart(Slice(value, k + 2, e))))
     ELSE IF next = "{"
     THEN LET e == ScanUntil(value, k + 2, {"}"})
              k1 == IF e < Len(value) THEN e + 1 ELSE e
          IN parseWordPartsLoop(value, quoting, k1, k1,
               Append(flushed, VariablePart(Slice(value, k + 2, e), TRUE)))
     ELSE IF next \in VAR_START
     THEN LET e == ScanWhile(value, k + 2, VAR_BODY)
          IN parseWordPartsLoop(value, quoting, e, e,
               Append(flushed, VariablePart(Slice(value, k + 1, e), FALSE)))
     ELSE IF next \in SPECIAL_VAR
     THEN parseWordPartsLoop(value, quoting, k + 2, k + 2,
               Append(flushed, VariablePart(next, FALSE)))
     ELSE parseWordPartsLoop(value, quoting, k + 1, litStart, parts)

parseWordParts(value, tokenType) ==
  LET quoting == IF tokenType = "DoubleQuoted" THEN "double" ELSE "unquoted"
  IN IF tokenType = "SingleQuoted" THEN <<LiteralPart(value, "single")>>
     ELSE IF tokenType = "DollarSingleQuoted" THEN <<LiteralPart(value, "dollar-single")>>
     ELSE IF ~Contains(value, "$") THEN <<LiteralPart(value, quoting)>>
     ELSE parseWordPartsLoop(value, quoting, 0, 0, <<>>)

parseWord(token) == WordNode(parseWordParts(token.value, token.type))

isWordToken(tok) ==
  tok.type \in {"Word", "SingleQuoted", "DoubleQuoted", "DollarSingleQuoted"}

isRedirectToken(tok) ==
  tok.type \in {"RedirectOut", "RedirectAppend", "RedirectIn", "HereString"}

isAssignment(tok) ==
  /\ tok.type = "Word"
  /\ LET eq == IndexOf(tok.value, "=")
     IN /\ eq > 0
        /\ Ch(tok.value, 0) \in VAR_START
        /\ \A j \in 1..(eq - 1) : Ch(tok.value, j) \in VAR_BODY

parseAssignment(tok) ==
  LET eq == IndexOf(tok.value, "=")
      rawValue == SliceFrom(tok.value, eq + 1)
  IN [type |-> "Assignment",
      name |-> Slice(tok.value, 0, eq),
      value |-> IF rawValue # "" THEN parseWord([tok EXCEPT !.value = rawValue])
                ELSE null]

RECURSIVE parseAssignments(_, _, _)
\* while (isAssignment(peek())) assignments.push(parseAssignment(advance()))
parseAssignments(t, p, assignments) ==
  IF isAssignment(peek(t, p))
  THEN parseAssignments(t, advance(t, p), Append(assignments, parseAssignment(peek(t, p))))
  ELSE [pos |-> p, assignments |-> assignments]

RedirectNode(op, fd, target, targetFd) ==
  [type |-> "Redirect", op |-> op, fd |-> fd, target |-> target, targetFd |-> targetFd]

parseRedirect(t, p) ==
  LET tok == peek(t, p)
      p1 == advance(t, p)
      fd == IF tok.fd # NoFd THEN tok.fd
            ELSE IF tok.type = "RedirectIn" THEN 0 ELSE 1
      op == CASE tok.type = "RedirectOut" -> ">"
              [] tok.type = "RedirectAppend" -> ">>"
              [] tok.type = "RedirectIn" -> "<"
              [] tok.type = "HereString" -> "<<<"
              [] OTHER -> ">"
  IN IF tok.targetFd # NoFd
     THEN [pos |-> p1,
           node |-> RedirectNode(">", fd,
                      WordNode(<<LiteralPart("&" \o NumStr(tok.targetFd), "unquoted")>>),
                      tok.targetFd)]
     ELSE [pos |-> advance(t, p1),
           node |-> RedirectNode(op, fd, parseWord(peek(t, p1)), NoFd)]

RECURSIVE parseRedirects(_, _, _)
\* while (isRedirectToken(peek())) redirects.push(parseRedirect())
parseRedirects(t, p, redirects) ==
  IF isRedirectToken(peek(t, p))
  THEN LET r == parseRedirect(t, p)
       IN parseRedirects(t, r.pos, Append(redirects, r.node))
  ELSE [pos |-> p, redirects |-> redirects]

RECURSIVE parseArguments(_, _, _, _)
\* the loop of parseSimpleCommand over arguments, redirects and heredocs
parseArguments(t, p, args, redirects) ==
  LET tok == peek(t, p)
  IN IF isAtEnd(t, p) THEN [pos |-> p, args |-> args, redirects |-> redirects]
     ELSE IF isRedirectToken(tok)
     THEN LET r == parseRedirect(t, p)
          IN parseArguments(t, r.pos, args, Append(redirects, r.node))
     ELSE IF tok.type = "HereDoc"
     THEN LET parts == IF tok.fd = 0 THEN <<LiteralPart(tok.value, "single")>>
                       ELSE parseWordParts(tok.value, "Word")
          IN parseArguments(t, advance(t, p), args,
               Append(redirects, RedirectNode("<", 0, WordNode(parts), NoFd)))
     ELSE IF isWordToken(tok)
     THEN parseArguments(t, advance(t, p), Append(args, parseWord(tok)), redirects)
     ELSE [pos |-> p, args |-> args, redirects |-> redirects]

\* How a parsing function ends: st = "ok" with the node it returns and the
\* position it leaves, "throw" with the message of the Error it throws, or
\* "hang" when a parseScript loop in it repeats a pass that consumes nothing.
Returned(p, node) == [st |-> "ok", pos |-> p, node |-> node, msg |-> ""]
Thrown(p, msg) == [st |-> "throw", pos |-> p, node |-> null, msg |-> msg]
Hung(p) == [st |-> "hang", pos |-> p, node |-> null, msg |-> ""]

\* what parseSimpleCommand returns: r is what its loop over arguments and
\* redirects returned
SimpleCommandNode(assignments, name, r) ==
  Returned(r.pos, [type |-> "SimpleCommand", assignments |-> assignments,
                   name |-> name, args |-> r.args, redirects |-> r.redirects])

\* parseSimpleCommand after its loop over assignments, which returned a
parseCommandWords(t, a) ==
  SimpleCommandNode(a.assignments,
                    IF isWordToken(peek(t, a.pos)) THEN parseWord(peek(t, a.pos))
                    ELSE null,
                    parseArguments(t, IF isWordToken(peek(t, a.pos))
                                      THEN advance(t, a.pos) ELSE a.pos, <<>>, <<>>))

parseSimpleCommand(t, p) == parseCommandWords(t, parseAssignments(t, p, <<>>))

\* expect(type): the token is consumed, an Error is thrown when it is another
expect(t, p, type) ==
  LET tok == peek(t, p)
  IN IF tok.type # type
     THEN Thrown(advance(t, p), "Expected " \o type \o " but got " \o tok.type
                                \o " (\"" \o tok.value \o "\")")
     ELSE Returned(advance(t, p), tok)

PipelineNode(commands, negated) ==
  [type |-> "Pipeline", commands |-> commands, negated |-> negated]

LogicalExprNode(operator, left, right) ==
  [type |-> "LogicalExpr", operator |-> operator, left |-> left, right |-> right]

RECURSIVE lookAheadAssignments(_, _)
\* while (lookAhead < tokens.length && isAssignment(tokens[lookAhead])) lookAhead++
lookAheadAssignments(t, p) ==
  IF p < Len(t) /\ isAssignment(t[p + 1]) THEN lookAheadAssignments(t, p + 1) ELSE p

\* parseScript's test for assignments with no command after them
isBareAssignment(t, p) ==
  /\ isAssignment(peek(t, p))
  /\ LET lookAhead == lookAheadAssignments(t, p)
     IN \/ lookAhead >= Len(t)
        \/ ~isWordToken(t[lookAhead + 1])
        \/ isSeparator(t[lookAhead + 1])
        \/ t[lookAhead + 1].type = "EOF"

\* The functions of the parser that call each other (parseCommand,
\* parsePipeline, parseAndOr, parseList, parseScript and the pass of its
\* loop) do so through parseNode(kind, t, p), which names the callee.
RECURSIVE parseNode(_, _, _), parsePipelineLoop(_, _, _), parseAndOrLoop(_, _, _),
          parseListLoop(_, _, _), parseScriptLoop(_, _, _)

\* what parseCommand returns for a subshell: r is what the loop over the
\* redirects after it returned
SubshellNode(script, r) ==
  Returned(r.pos, [type |-> "Subshell", body |-> script, redirects |-> r.redirects])

parseCommand(t, p) ==
  IF peek(t, p).type = "LeftParen"
  THEN LET b == parseNode("script", t, skipNewlines(t, advance(t, p)))
       IN IF b.st # "ok" THEN b
          ELSE LET e == expect(t, skipNewlines(t, b.pos), "RightParen")
               IN IF e.st # "ok" THEN e
                  ELSE SubshellNode(b.node, parseRedirects(t, e.pos, <<>>))
  ELSE parseSimpleCommand(t, p)

parsePipelineLoop(t, p, commands) ==
  IF peek(t, p).type = "Pipe"
  THEN LET c == parseNode("command", t, skipNewlines(t, advance(t, p)))
       IN IF c.st # "ok" THEN c
          ELSE parsePipelineLoop(t, c.pos, Append(commands, c.node))
  ELSE Returned(p, commands)

parsePipeline(t, p) ==
  LET negated == peek(t, p).value = "!" /\ peek(t, p).type = "Word"
      first == parseNode("command", t, IF negated THEN advance(t, p) ELSE p)
  IN IF first.st # "ok" THEN first
     ELSE LET rest == parsePipelineLoop(t, first.pos, <<first.node>>)
          IN IF rest.st # "ok" THEN rest
             ELSE Returned(rest.pos, PipelineNode(rest.node, negated))

parseAndOrLoop(t, p, left) ==
  IF peek(t, p).type \in {"And", "Or"}
  THEN LET op == IF peek(t, p).type = "And" THEN "&&" ELSE "||"
           right == parseNode("pipeline", t, skipNewlines(t, advance(t, p)))
       IN IF right.st # "ok" THEN right
          ELSE parseAndOrLoop(t, right.pos, LogicalExprNode(op, left, right.node))
  ELSE Returned(p, left)

parseAndOr(t, p) ==
  LET left == parseNode("pipeline", t, p)
  IN IF left.st # "ok" THEN left ELSE parseAndOrLoop(t, left.pos, left.node)

parseListLoop(t, p, left) ==
  IF isSeparator(peek(t, p))
  THEN LET p1 == skipNewlines(t, advance(t, p))
       IN IF isAtEnd(t, p1) \/ peek(t, p1).type = "RightParen" THEN Returned(p1, left)
          ELSE IF isOperator(peek(t, p1)) THEN Returned(p1, left)
          ELSE LET right == parseNode("andOr", t, p1)
               IN IF right.st # "ok" THEN right
                  ELSE parseListLoop(t, right.pos, LogicalExprNode(";", left, right.node))
  ELSE Returned(p, left)

parseList(t, p) ==
  LET left == parseNode("andOr", t, p)
  IN IF left.st # "ok" THEN left ELSE parseListLoop(t, left.pos, left.node)

\* One pass of parseScript's loop, entered when the next token is neither
\* the end nor a right parenthesis: the statement it pushes and the position
\* it leaves.
parseScriptPass(t, p) ==
  IF isBareAssignment(t, p)
  THEN LET a == parseAssignments(t, p, <<>>)
       IN Returned(skipSeparators(t, skipNewlines(t, a.pos)),
                   [type |-> "AssignmentStatement", assignments |-> a.assignments])
  ELSE LET l == parseNode("list", t, p)
       IN IF l.st # "ok" THEN l
          ELSE Returned(skipSeparators(t, skipNewlines(t, l.pos)), l.node)

\* while (!isAtEnd() && peek().type !== TokenType.RightParen)
parseScriptContinues(t, p) == ~isAtEnd(t, p) /\ peek(t, p).type # "RightParen"

ScriptNode(stmts) == [type |-> "Script", body |-> stmts]

parseScriptLoop(t, p, stmts) ==
  IF ~parseScriptContinues(t, p) THEN Returned(p, ScriptNode(stmts))
  ELSE LET r == parseNode("pass", t, p)
       IN IF r.st # "ok" THEN r
          ELSE IF r.pos = p THEN Hung(p)
          ELSE parseScriptLoop(t, r.pos, Append(stmts, r.node))

parseScript(t, p) == parseScriptLoop(t, skipNewlines(t, p), <<>>)

parseNode(kind, t, p) ==
  CASE kind = "command" -> parseCommand(t, p)
    [] kind = "pipeline" -> parsePipeline(t, p)
    [] kind = "andOr" -> parseAndOr(t, p)
    [] kind = "list" -> parseList(t, p)
    [] kind = "pass" -> parseScriptPass(t, p)
    [] OTHER -> parseScript(t, p)

\* parse(tokens), as the nested call in translateCommandSub makes it
parse(t) == parseNode("script", t, 0)

(***************************************************************************)
(* Transformer (transformer.ts)                                            *)
(***************************************************************************)

\* SPECIAL_VARS[name], "" when the table has no such key
SPECIAL_VARS(name) ==
  CASE name = "HOME" -> "env:USERPROFILE"
    [] name = "USER" -> "env:USERNAME"
    [] name = "SHELL" -> "env:ComSpec"
    [] name = "TMPDIR" -> "env:TEMP"
    [] name = "HOSTNAME" -> "env:COMPUTERNAME"
    [] name = "LANG" -> "env:LANG"
    [] name = "PWD" -> "PWD"
    [] name = "OLDPWD" -> "OLDPWD"
    [] name = "RANDOM" -> "(Get-Random)"
    [] name = "SECONDS" -> "([int](New-TimeSpan -Start $script:StartTime).TotalSeconds)"
    [] OTHER -> ""

\* SPECIAL_SINGLE_CHAR_VARS[name], "" when the table has no such key
SPECIAL_SINGLE_CHAR_VARS(name) ==
  CASE name = "?" -> "LASTEXITCODE"
    [] name = "$" -> "PID"
    [] name = "!" -> "PID"
    [] name = "#" -> "args.Count"
    [] name = "@" -> "args"
    [] name = "0" -> "MyInvocation.MyCommand.Name"
    [] OTHER -> ""

\* SPECIAL_VARS is an object literal: a lookup of one of these names finds
\* the member of Object.prototype, which is not a string
OBJECT_PROTOTYPE == {"constructor", "hasOwnProperty", "isPrototypeOf",
                     "propertyIsEnumerable", "toLocaleString", "toString", "valueOf",
                     "__proto__", "__defineGetter__", "__defineSetter__",
                     "__lookupGetter__", "__lookupSetter__"}

escapePsSingleQuote(s) == ReplaceAll(s, "'", "''")

escapePsDoubleQuote(s) ==
  ReplaceAll(ReplaceAll(ReplaceAll(s, BT, BT \o BT), "$", BT \o "$"), "\"", BT \o "\"")

AllIn(s, set) == \A k \in 0..(Len(s) - 1) : Ch(s, k) \in set

AnyIn(s, set) == \E k \in 0..(Len(s) - 1) : Ch(s, k) \in set

\* What a function of the transformer without a context does: the string it
\* returns, or the message of the error it throws.
Value(out) == [st |-> "ok", out |-> out, msg |-> ""]
TypeError(msg) == [st |-> "throw", out |-> "", msg |-> msg]

translateVarName(name, braced) ==
  IF Len(name) = 1 /\ SPECIAL_SINGLE_CHAR_VARS(name) # ""
  THEN Value("$" \o SPECIAL_SINGLE_CHAR_VARS(name))
  ELSE IF name # "" /\ AllIn(name, Digits) /\ name # "0"
  THEN Value("$args[" \o NumStr(ParseInt(name) - 1) \o "]")
  ELSE IF name \in OBJECT_PROTOTYPE
  THEN TypeError("mapped.startsWith is not a function")
  ELSE IF SPECIAL_VARS(name) # ""
  THEN IF StartsWith(SPECIAL_VARS(name), "(") THEN Value(SPECIAL_VARS(name))
       ELSE Value("$" \o SPECIAL_VARS(name))
  ELSE Value(IF braced THEN "${env:" \o name \o "}" ELSE "$env:" \o name)

RECURSIVE psEscapes(_, _)
\* the loops over the characters of a $'...' value that holds control
\* characters; full is FALSE for the shorter table of translateCompoundWord
psEscapes(value, full) ==
  IF value = "" THEN ""
  ELSE LET ch == Ch(value, 0)
           esc == CASE ch = "\n" -> BT \o "n"
                    [] ch = "\r" -> BT \o "r"
                    [] ch = "\t" -> BT \o "t"
                    [] ch = NUL -> BT \o "0"
                    [] full /\ ch = BEL -> BT \o "a"
                    [] full /\ ch = BS -> BT \o "b"
                    [] full /\ ch = ESC -> BT \o "e"
                    [] full /\ ch = CTL -> BT \o "0"
                    [] OTHER -> escapePsDoubleQuote(ch)
       IN esc \o psEscapes(SliceFrom(value, 1), full)

\* the characters of /^[a-zA-Z0-9_.\/:\-\*\?=@%]+$/
SAFE_UNQUOTED == Lower \cup Upper \cup Digits
                 \cup {"_", ".", "/", ":", "-", "*", "?", "=", "@", "%"}

translateLiteral(part) ==
  LET value == part.value
      quoting == part.quoting
  IN IF quoting = "single" THEN "'" \o escapePsSingleQuote(value) \o "'"
     ELSE IF quoting = "dollar-single"
     THEN IF AnyIn(value, CONTROL) THEN "\"" \o psEscapes(value, TRUE) \o "\""
          ELSE "'" \o escapePsSingleQuote(value) \o "'"
     ELSE IF quoting = "double" THEN "\"" \o escapePsDoubleQuote(value) \o "\""
     ELSE IF value = "" THEN "''"
     ELSE IF value \in {"$null", "$true", "$false"} THEN value
     ELSE IF AllIn(value, SAFE_UNQUOTED) THEN value
     ELSE "'" \o escapePsSingleQuote(value) \o "'"

\* the rewriting of /tmp both translatePathInArgs and translatePath do
tmpPath(word) ==
  LET val == word.parts[1].value
  IN IF val \in {"/tmp", "/tmp/"} THEN WordNode(<<VariablePart("TEMP", FALSE)>>)
     ELSE IF StartsWith(val, "/tmp/")
     THEN WordNode(<<VariablePart("TEMP", FALSE),
                     LiteralPart("\\" \o SliceFrom(val, 5), "unquoted")>>)
     ELSE word

translatePathInArgs(word) ==
  IF Len(word.parts) = 1 /\ word.parts[1].type = "Literal" THEN tmpPath(word)
  ELSE word

translatePath(word) ==
  IF Len(word.parts) = 1 /\ word.parts[1].type = "Literal"
  THEN LET val == word.parts[1].value
       IN IF val = "/dev/null" THEN WordNode(<<LiteralPart("$null", "unquoted")>>)
          ELSE IF val \in {"/dev/stdout", "/dev/stderr"}
          THEN WordNode(<<LiteralPart("CON", "unquoted")>>)
          ELSE tmpPath(word)
  ELSE word

wordToString(word) ==
  JoinWith([k \in 1..Len(word.parts) |->
              LET part == word.parts[k]
              IN CASE part.type = "Literal" -> part.value
                   [] part.type = "Variable" -> "$" \o part.name
                   [] part.type = "CommandSubstitution" -> "$(" \o part.command \o ")"
                   [] OTHER -> ""], "")

(***************************************************************************)
(* Argument parsing (commands/arg-parser.ts)                               *)
(***************************************************************************)

wordRawString(word) ==
  LET parts == word.parts
  IN IF Len(parts) = 1 /\ parts[1].type = "Literal" THEN parts[1].value
     ELSE JoinWith([k \in 1..Len(parts) |->
                      LET part == parts[k]
                      IN CASE part.type = "Literal" -> part.value
                           [] part.type = "Variable" ->
                                IF part.braced THEN "${" \o part.name \o "}"
                                ELSE "$" \o part.name
                           [] part.type = "CommandSubstitution" ->
                                "$(" \o part.command \o ")"
                           [] OTHER -> ""], "")

\* cmd.args.map(a => wordRawString(a))
rawArgsOf(cmd) == [k \in 1..Len(cmd.args) |-> wordRawString(cmd.args[k])]

\* the inline form some translators use:
\* a.parts.map(p => p.type === 'Literal' ? p.value : '').join('')
literalString(word) ==
  JoinWith([k \in 1..Len(word.parts) |->
              IF word.parts[k].type = "Literal" THEN word.parts[k].value ELSE ""], "")

\* a FlagSpec; "" for a name it does not have
FlagSpec(short, long, takesValue) ==
  [short |-> short, long |-> long, takesValue |-> takesValue]

\* the value of a flag: true, a string, or undefined when it was not given
Undefined == [kind |-> "undefined", s |-> ""]
FlagTrue == [kind |-> "true", s |-> ""]
FlagString(str) == [kind |-> "string", s |-> str]

NoFlags == [k \in {} |-> Undefined]

Flag(flags, key) == IF key \in DOMAIN flags THEN flags[key] ELSE Undefined

SetFlag(flags, key, v) ==
  [k \in DOMAIN flags \cup {key} |-> IF k = key THEN v ELSE flags[k]]

\* a flag value in a condition: !!v
Truthy(v) == v.kind = "true" \/ (v.kind = "string" /\ v.s # "")

\* shortMap.get(ch): the last spec with that short name, or none
shortSpec(specs, ch) ==
  LET hits == {k \in 1..Len(specs) : specs[k].short # "" /\ specs[k].short = ch}
  IN IF hits = {} THEN <<>> ELSE <<specs[CHOOSE k \in hits : \A h \in hits : h <= k]>>

\* longMap.get(name)
longSpec(specs, name) ==
  LET hits == {k \in 1..Len(specs) : specs[k].long # "" /\ specs[k].long = name}
  IN IF hits = {} THEN <<>> ELSE <<specs[CHOOSE k \in hits : \A h \in hits : h <= k]>>

\* spec.long ?? spec.short ?? name
flagKey(spec, name) ==
  IF spec.long # "" THEN spec.long ELSE IF spec.short # "" THEN spec.short ELSE name

RECURSIVE parseShortFlags(_, _, _, _, _, _)
\* the loop over the characters of -xyz, from arg[j]; next tells whether the
\* following argument was taken as a value
parseShortFlags(args, specs, k, j, flags, arg) ==
  IF j >= Len(arg) THEN [flags |-> flags, next |-> FALSE]
  ELSE LET ch == Ch(arg, j)
           found == shortSpec(specs, ch)
       IN IF found = <<>>
          THEN parseShortFlags(args, specs, k, j + 1, SetFlag(flags, ch, FlagTrue), arg)
          ELSE LET key == flagKey(found[1], ch)
                   rest == SliceFrom(arg, j + 1)
               IN IF ~found[1].takesValue
                  THEN parseShortFlags(args, specs, k, j + 1,
                                       SetFlag(flags, key, FlagTrue), arg)
                  ELSE IF rest # ""
                  THEN [flags |-> SetFlag(flags, key, FlagString(rest)), next |-> FALSE]
                  ELSE IF k + 1 <= Len(args)
                  THEN [flags |-> SetFlag(flags, key, FlagString(args[k + 1])),
                        next |-> TRUE]
                  ELSE [flags |-> flags, next |-> FALSE]

RECURSIVE parseArgsLoop(_, _, _, _, _)
\* the loop of parseArgs, at args[k] (1-based here)
parseArgsLoop(args, specs, k, flags, positional) ==
  IF k > Len(args) THEN [flags |-> flags, positional |-> positional]
  ELSE LET arg == args[k]
       IN IF arg = "--"
          THEN [flags |-> flags,
                positional |-> positional \o SubSeq(args, k + 1, Len(args))]
          ELSE IF StartsWith(arg, "--")
          THEN LET eqIdx == IndexOf(arg, "=")
                   name == IF eqIdx >= 0 THEN Slice(arg, 2, eqIdx) ELSE SliceFrom(arg, 2)
                   found == longSpec(specs, name)
               IN IF found = <<>>
                  THEN parseArgsLoop(args, specs, k + 1,
                         SetFlag(flags, name,
                                 IF eqIdx >= 0 THEN FlagString(SliceFrom(arg, eqIdx + 1))
                                 ELSE FlagTrue),
                         positional)
                  ELSE IF ~found[1].takesValue
                  THEN parseArgsLoop(args, specs, k + 1,
                         SetFlag(flags, flagKey(found[1], name), FlagTrue), positional)
                  ELSE IF eqIdx >= 0
                  THEN parseArgsLoop(args, specs, k + 1,
                         SetFlag(flags, flagKey(found[1], name),
                                 FlagString(SliceFrom(arg, eqIdx + 1))),
                         positional)
                  ELSE IF k + 1 <= Len(args)
                  THEN parseArgsLoop(args, specs, k + 2,
                         SetFlag(flags, flagKey(found[1], name), FlagString(args[k + 1])),
                         positional)
                  ELSE parseArgsLoop(args, specs, k + 1, flags, positional)
          ELSE IF StartsWith(arg, "-") /\ Len(arg) > 1 /\ Ch(arg, 1) # "-"
          THEN LET r == parseShortFlags(args, specs, k, 1, flags, arg)
               IN parseArgsLoop(args, specs, IF r.next THEN k + 2 ELSE k + 1,
                                r.flags, positional)
          ELSE parseArgsLoop(args, specs, k + 1, flags, Append(positional, arg))

parseArgs(args, specs) == parseArgsLoop(args, specs, 1, NoFlags, <<>>)

(***************************************************************************)
(* Command translators (commands/*.ts)                                     *)
(***************************************************************************)

\* A TranslatedCommand.  branch is a history field, not in the source: which
\* branch of the translator built the command, "native" for the one that
\* calls a native tool (rg, fd, curl.exe), "cmdlet" for any other.
Translated(command, warnings, usedFallback, branch) ==
  [command |-> command, warnings |-> warnings, usedFallback |-> usedFallback,
   branch |-> branch]

\* `'${s.replace(/'/g, "''")}'`
psQuote(str) == "'" \o ReplaceAll(str, "'", "''") \o "'"

\* xs.map(f => `'${f.replace(/'/g, "''")}'`)
psQuoteAll(xs) == [k \in 1..Len(xs) |-> psQuote(xs[k])]

\* parts.push(...) under a condition
When(cond, items) == IF cond THEN items ELSE <<>>

GREP_FLAGS == <<
  FlagSpec("r", "recursive", FALSE), FlagSpec("R", "dereference-recursive", FALSE),
  FlagSpec("i", "ignore-case", FALSE), FlagSpec("n", "line-number", FALSE),
  FlagSpec("l", "files-with-matches", FALSE), FlagSpec("L", "files-without-match", FALSE),
  FlagSpec("c", "count", FALSE), FlagSpec("v", "invert-match", FALSE),
  FlagSpec("w", "word-regexp", FALSE), FlagSpec("x", "line-regexp", FALSE),
  FlagSpec("E", "extended-regexp", FALSE), FlagSpec("F", "fixed-strings", FALSE),
  FlagSpec("P", "perl-regexp", FALSE), FlagSpec("o", "only-matching", FALSE),
  FlagSpec("q", "quiet", FALSE), FlagSpec("H", "with-filename", FALSE),
  FlagSpec("h", "no-filename", FALSE), FlagSpec("m", "max-count", TRUE),
  FlagSpec("A", "after-context", TRUE), FlagSpec("B", "before-context", TRUE),
  FlagSpec("C", "context", TRUE), FlagSpec("e", "regexp", TRUE),
  FlagSpec("", "include", TRUE), FlagSpec("", "exclude", TRUE),
  FlagSpec("", "exclude-dir", TRUE), FlagSpec("", "color", TRUE),
  FlagSpec("", "colour", TRUE) >>

\* the last stage of the Select-String pipeline
grepFormat(files, recursive, lineNumber, filesOnly, filesWithout, count, onlyMatch,
           quiet) ==
  IF quiet THEN "| ForEach-Object { $true } | Select-Object -First 1"
  ELSE IF filesOnly \/ filesWithout THEN "| Select-Object -Unique -ExpandProperty Path"
  ELSE IF count
  THEN IF Len(files) > 1
       THEN "| Group-Object Path | ForEach-Object { \"$($_.Name):$($_.Count)\" }"
       ELSE "| Measure-Object | ForEach-Object { $_.Count }"
  ELSE IF onlyMatch THEN "| ForEach-Object { $_.Matches.Value }"
  ELSE IF Len(files) > 1 \/ recursive
  THEN IF lineNumber
       THEN "| ForEach-Object { \"$($_.Path):$($_.LineNumber):$($_.Line)\" }"
       ELSE "| ForEach-Object { \"$($_.Path):$($_.Line)\" }"
  ELSE IF lineNumber THEN "| ForEach-Object { \"$($_.LineNumber):$($_.Line)\" }"
  ELSE "| ForEach-Object { $_.Line }"

\* grepTranslator once parseArgs has returned parsed
grepCommand(parsed, c) ==
  LET flags == parsed.flags
      positional == parsed.positional
      regexp == Flag(flags, "regexp")
      pattern == IF regexp.kind = "string" THEN regexp.s
                 ELSE IF Len(positional) > 0 THEN positional[1] ELSE ""
      files == IF Truthy(regexp) THEN positional
               ELSE SubSeq(positional, 2, Len(positional))
      recursive == Truthy(Flag(flags, "recursive"))
                   \/ Truthy(Flag(flags, "dereference-recursive"))
      ignoreCase == Truthy(Flag(flags, "ignore-case"))
      lineNumber == Truthy(Flag(flags, "line-number"))
      filesOnly == Truthy(Flag(flags, "files-with-matches"))
      filesWithout == Truthy(Flag(flags, "files-without-match"))
      count == Truthy(Flag(flags, "count"))
      invert == Truthy(Flag(flags, "invert-match"))
      onlyMatch == Truthy(Flag(flags, "only-matching"))
      quiet == Truthy(Flag(flags, "quiet"))
      fixedStrings == Truthy(Flag(flags, "fixed-strings"))
      include == Flag(flags, "include")
      exclude == Flag(flags, "exclude")
      excludeDir == Flag(flags, "exclude-dir")
      maxCount == Flag(flags, "max-count")
      afterCtx == Flag(flags, "after-context")
      beforeCtx == Flag(flags, "before-context")
      contextLines == Flag(flags, "context")
  IN IF c.tools.rg
     THEN Translated(
            JoinWith(<<"rg">>
                     \o When(fixedStrings, <<"-F">>)
                     \o When(ignoreCase, <<"-i">>)
                     \o When(~ignoreCase, <<"-s">>)
                     \o When(lineNumber, <<"-n">>)
                     \o When(filesOnly, <<"-l">>)
                     \o When(filesWithout, <<"--files-without-match">>)
                     \o When(count, <<"-c">>)
                     \o When(invert, <<"-v">>)
                     \o When(onlyMatch, <<"-o">>)
                     \o When(quiet, <<"-q">>)
                     \o When(Truthy(maxCount), <<"-m", maxCount.s>>)
                     \o When(Truthy(afterCtx), <<"-A", afterCtx.s>>)
                     \o When(Truthy(beforeCtx), <<"-B", beforeCtx.s>>)
                     \o When(Truthy(contextLines), <<"-C", contextLines.s>>)
                     \o When(Truthy(include), <<"-g", "'" \o include.s \o "'">>)
                     \o When(Truthy(exclude), <<"-g", "'!" \o exclude.s \o "'">>)
                     \o When(Truthy(excludeDir), <<"-g", "'!" \o excludeDir.s \o "/**'">>)
                     \o When(~recursive /\ Len(files) = 0, <<"--no-recursive">>)
                     \o <<psQuote(pattern)>>
                     \o psQuoteAll(files), " "),
            <<>>, FALSE, "native")
     ELSE Translated(
            JoinWith(When(recursive,
                          <<JoinWith(<<"Get-ChildItem", "-Recurse", "-File">>
                                     \o When(Len(files) > 0,
                                             <<"-Path", JoinWith(psQuoteAll(files), ",")>>)
                                     \o When(Truthy(include),
                                             <<"-Include", "'" \o include.s \o "'">>)
                                     \o When(Truthy(exclude),
                                             <<"-Exclude", "'" \o exclude.s \o "'">>),
                                     " "),
                            "|">>)
                     \o <<"Select-String", "-Pattern",
                          IF fixedStrings THEN "-SimpleMatch " \o psQuote(pattern)
                          ELSE psQuote(pattern)>>
                     \o When(~recursive /\ Len(files) > 0,
                             <<"-Path", JoinWith(psQuoteAll(files), ",")>>)
                     \o When(~ignoreCase, <<"-CaseSensitive">>)
                     \o When(invert, <<"-NotMatch">>)
                     \o <<grepFormat(files, recursive, lineNumber, filesOnly, filesWithout,
                                     count, onlyMatch, quiet)>>, " "),
            <<>>, TRUE, "cmdlet")

\* grepTranslator as it would be if it listed the files of every call
grepTranslatorListing(cmd, c) ==
  LET parsed == parseArgs(rawArgsOf(cmd), GREP_FLAGS)
  IN grepCommand([parsed EXCEPT !.flags = SetFlag(@, "recursive", FlagTrue)], c)

\* grepTranslator as it would be if it looked for fd where it looks for rg
grepTranslatorByFd(cmd, c) ==
  grepCommand(parseArgs(rawArgsOf(cmd), GREP_FLAGS), [c EXCEPT !.tools.rg = c.tools.fd])

grepTranslator(cmd, c) == grepCommand(parseArgs(rawArgsOf(cmd), GREP_FLAGS), c)

RECURSIVE findPathCount(_, _)
\* how many leading arguments of find are search paths
findPathCount(rawArgs, k) ==
  IF k < Len(rawArgs) /\ ~StartsWith(rawArgs[k + 1], "-")
     /\ rawArgs[k + 1] \notin {"!", "(", ")"}
  THEN findPathCount(rawArgs, k + 1)
  ELSE k

RECURSIVE findExecEnd(_, _)
\* the index of the `;` or `+` that ends the command of -exec
findExecEnd(exprArgs, k) ==
  IF k <= Len(exprArgs) /\ exprArgs[k] \notin {";", "+"} THEN findExecEnd(exprArgs, k + 1)
  ELSE k

\* the variables of the expression loop before its first pass; the source's
\* null is "" here, which every use below treats alike
findExprInit ==
  [namePattern |-> "", inamePattern |-> "", typeFilter |-> "", maxDepth |-> "",
   minDepth |-> "", notPath |-> "", doDelete |-> FALSE, isEmpty |-> FALSE,
   execCmd |-> <<>>, isNot |-> FALSE]

RECURSIVE findExprLoop(_, _, _)
findExprLoop(exprArgs, k, e) ==
  IF k > Len(exprArgs) THEN e
  ELSE LET arg == exprArgs[k]
           more == k + 1 <= Len(exprArgs)
       IN IF arg \in {"!", "-not"} THEN findExprLoop(exprArgs, k + 1, [e EXCEPT !.isNot = TRUE])
          ELSE IF arg = "-name" /\ more
          THEN IF e.isNot THEN findExprLoop(exprArgs, k + 2, [e EXCEPT !.isNot = FALSE])
               ELSE findExprLoop(exprArgs, k + 2, [e EXCEPT !.namePattern = exprArgs[k + 1]])
          ELSE IF arg = "-iname" /\ more
          THEN findExprLoop(exprArgs, k + 2, [e EXCEPT !.inamePattern = exprArgs[k + 1]])
          ELSE IF arg = "-type" /\ more
          THEN findExprLoop(exprArgs, k + 2, [e EXCEPT !.typeFilter = exprArgs[k + 1]])
          ELSE IF arg = "-maxdepth" /\ more
          THEN findExprLoop(exprArgs, k + 2, [e EXCEPT !.maxDepth = exprArgs[k + 1]])
          ELSE IF arg = "-mindepth" /\ more
          THEN findExprLoop(exprArgs, k + 2, [e EXCEPT !.minDepth = exprArgs[k + 1]])
          ELSE IF arg = "-path" /\ more
          THEN IF e.isNot
               THEN findExprLoop(exprArgs, k + 2,
                                 [e EXCEPT !.notPath = exprArgs[k + 1], !.isNot = FALSE])
               ELSE findExprLoop(exprArgs, k + 2, e)
          ELSE IF arg = "-delete" THEN findExprLoop(exprArgs, k + 1, [e EXCEPT !.doDelete = TRUE])
          ELSE IF arg = "-empty" THEN findExprLoop(exprArgs, k + 1, [e EXCEPT !.isEmpty = TRUE])
          ELSE IF arg = "-exec"
          THEN LET stop == findExecEnd(exprArgs, k + 1)
               IN findExprLoop(exprArgs, stop + 1,
                    [e EXCEPT !.execCmd = e.execCmd \o SubSeq(exprArgs, k + 1, stop - 1)])
          ELSE IF arg \in {"-prune", "-print", "-print0"} THEN findExprLoop(exprArgs, k + 1, e)
          ELSE findExprLoop(exprArgs, k + 1, [e EXCEPT !.isNot = FALSE])

\* findTranslator once the search paths are split off and the loop over
\* the expression has ended with the variables e
findCommand(searchPaths, e, c) ==
  LET typeArg == CASE e.typeFilter = "f" -> <<"-File">>
                   [] e.typeFilter = "d" -> <<"-Directory">>
                   [] OTHER -> <<>>
      filters == When(e.notPath # "", <<"$_.FullName -notlike '" \o e.notPath \o "'">>)
                 \o When(e.isEmpty, <<"$_.Length -eq 0">>)
  IN IF c.tools.fd
     THEN Translated(
            JoinWith(<<"fd">>
                     \o When(e.typeFilter \in {"f", "d", "l"}, <<"-t", e.typeFilter>>)
                     \o When(e.maxDepth # "", <<"-d", e.maxDepth>>)
                     \o When(e.isEmpty, <<"-e">>)
                     \o (IF e.namePattern # "" THEN <<"-g", "'" \o e.namePattern \o "'">>
                         ELSE IF e.inamePattern # ""
                         THEN <<"-i", "-g", "'" \o e.inamePattern \o "'">>
                         ELSE <<>>)
                     \o When(e.notPath # "", <<"-E", "'" \o e.notPath \o "'">>)
                     \o SelectSeq([k \in 1..Len(searchPaths) |->
                                     IF searchPaths[k] # "." THEN "'" \o searchPaths[k] \o "'"
                                     ELSE ""], LAMBDA x : x # "")
                     \o When(e.doDelete, <<"-X", "Remove-Item">>)
                     \o When(Len(e.execCmd) > 0, <<"-x", JoinWith(e.execCmd, " ")>>), " "),
            <<>>, FALSE, "native")
     ELSE Translated(
            JoinWith(<<"Get-ChildItem", "-Path",
                       JoinWith([k \in 1..Len(searchPaths) |-> "'" \o searchPaths[k] \o "'"],
                                ","),
                       "-Recurse">>
                     \o typeArg
                     \o When(e.maxDepth # "", <<"-Depth", e.maxDepth>>)
                     \o (IF e.namePattern # "" THEN <<"-Filter", "'" \o e.namePattern \o "'">>
                         ELSE IF e.inamePattern # ""
                         THEN <<"-Filter", "'" \o e.inamePattern \o "'">>
                         ELSE <<>>), " ")
            \o (IF Len(filters) > 0
                THEN " | Where-Object { " \o JoinWith(filters, " -and ") \o " }" ELSE "")
            \o (IF e.doDelete THEN " | Remove-Item -Force" ELSE "")
            \o (IF Len(e.execCmd) > 0
                THEN " | ForEach-Object { "
                     \o ReplaceAll(JoinWith(e.execCmd, " "), "{}", "$_.FullName") \o " }"
                ELSE ""),
            <<>>, TRUE, "cmdlet")

findTranslator(cmd, c) ==
  LET rawArgs == rawArgsOf(cmd)
      n == findPathCount(rawArgs, 0)
  IN findCommand(IF n = 0 THEN <<".">> ELSE SubSeq(rawArgs, 1, n),
                 findExprLoop(SubSeq(rawArgs, n + 1, Len(rawArgs)), 1, findExprInit), c)

LOWERCASE == "abcdefghijklmnopqrstuvwxyz"
UPPERCASE == "ABCDEFGHIJKLMNOPQRSTUVWXYZ"

RECURSIVE toUpperCase(_)
\* s.toUpperCase() for an ASCII string
toUpperCase(str) ==
  IF str = "" THEN ""
  ELSE LET ch == Ch(str, 0)
       IN (IF ch \in Lower THEN Ch(UPPERCASE, IndexOf(LOWERCASE, ch)) ELSE ch)
          \o toUpperCase(SliceFrom(str, 1))

WHITESPACE == {" ", "\t", "\n", "\r", "\f"}

RECURSIVE trimEnd(_)
trimEnd(str) ==
  IF str # "" /\ Ch(str, Len(str) - 1) \in WHITESPACE
  THEN trimEnd(Slice(str, 0, Len(str) - 1)) ELSE str

\* s.trim()
trim(str) == trimEnd(SliceFrom(str, ScanWhile(str, 0, WHITESPACE)))

CURL_FLAGS == <<
  FlagSpec("s", "silent", FALSE), FlagSpec("S", "show-error", FALSE),
  FlagSpec("L", "location", FALSE), FlagSpec("f", "fail", FALSE),
  FlagSpec("o", "output", TRUE), FlagSpec("O", "remote-name", FALSE),
  FlagSpec("I", "head", FALSE), FlagSpec("X", "request", TRUE),
  FlagSpec("H", "header", TRUE), FlagSpec("d", "data", TRUE),
  FlagSpec("", "data-raw", TRUE), FlagSpec("u", "user", TRUE),
  FlagSpec("k", "insecure", FALSE), FlagSpec("v", "verbose", FALSE),
  FlagSpec("b", "cookie", TRUE), FlagSpec("c", "cookie-jar", TRUE),
  FlagSpec("", "connect-timeout", TRUE), FlagSpec("m", "max-time", TRUE),
  FlagSpec("", "retry", TRUE), FlagSpec("A", "user-agent", TRUE),
  FlagSpec("e", "referer", TRUE), FlagSpec("", "compressed", FALSE) >>

\* the Invoke-WebRequest / Invoke-RestMethod branch of curlTranslator once
\* parseArgs has returned parsed
curlCommand(parsed) ==
  LET flags == parsed.flags
      url == IF Len(parsed.positional) > 0 THEN parsed.positional[1] ELSE ""
      request == Flag(flags, "request")
      method == IF request.kind = "string" THEN toUpperCase(request.s) ELSE "GET"
      output == Flag(flags, "output")
      data == IF Flag(flags, "data").kind # "undefined" THEN Flag(flags, "data")
              ELSE Flag(flags, "data-raw")
      headers == Flag(flags, "header")
      silent == Truthy(Flag(flags, "silent"))
      insecure == Truthy(Flag(flags, "insecure"))
      headOnly == Truthy(Flag(flags, "head"))
      timeout == Flag(flags, "max-time")
      cmdName == IF Truthy(data) \/ method # "GET" THEN "Invoke-RestMethod"
                 ELSE "Invoke-WebRequest"
      split == SplitOn(headers.s, ":")
      joined ==
        JoinWith(<<cmdName>>
                 \o When(url # "", <<"-Uri " \o psQuote(url)>>)
                 \o When(method # "GET", <<"-Method " \o method>>)
                 \o When(headOnly, <<"-Method Head">>)
                 \o When(Truthy(data), <<"-Body " \o psQuote(data.s)>>)
                 \o When(insecure, <<"-SkipCertificateCheck">>)
                 \o When(Truthy(timeout), <<"-TimeoutSec " \o timeout.s>>)
                 \o When(headers.kind = "string",
                         <<"-Headers @{'" \o trim(split[1]) \o "'="
                           \o psQuote(trim(JoinWith(Tail(split), ":"))) \o "}">>), " ")
  IN Translated(IF Truthy(output) THEN joined \o " -OutFile " \o psQuote(output.s)
                ELSE IF silent THEN "(" \o joined \o ").Content"
                ELSE joined,
                <<>>, TRUE, "cmdlet")

curlFallback(cmd) == curlCommand(parseArgs(rawArgsOf(cmd), CURL_FLAGS))

WGET_FLAGS == <<
  FlagSpec("O", "output-document", TRUE), FlagSpec("q", "quiet", FALSE),
  FlagSpec("", "no-check-certificate", FALSE),
  FlagSpec("P", "directory-prefix", TRUE) >>

\* wgetTranslator once parseArgs has returned parsed
wgetCommand(parsed, c) ==
  LET url == IF Len(parsed.positional) > 0 THEN parsed.positional[1] ELSE ""
      output == Flag(parsed.flags, "output-document")
      insecure == Truthy(Flag(parsed.flags, "no-check-certificate"))
      urlParts == SplitOn(url, "/")
      filename == IF urlParts[Len(urlParts)] # "" THEN urlParts[Len(urlParts)]
                  ELSE "download"
  IN IF c.tools.curl
     THEN Translated(
            JoinWith(<<"curl.exe", "-L", "-o",
                       IF Truthy(output) THEN psQuote(output.s)
                       ELSE "'" \o filename \o "'">>
                     \o When(insecure, <<"-k">>)
                     \o <<psQuote(url)>>, " "),
            <<>>, FALSE, "native")
     ELSE Translated(
            JoinWith(<<"Invoke-WebRequest", "-Uri " \o psQuote(url),
                       IF Truthy(output) THEN "-OutFile " \o psQuote(output.s)
                       ELSE "-OutFile '" \o filename \o "'">>
                     \o When(insecure, <<"-SkipCertificateCheck">>), " "),
            <<>>, TRUE, "cmdlet")

wgetTranslator(cmd, c) == wgetCommand(parseArgs(rawArgsOf(cmd), WGET_FLAGS), c)

WC_FLAGS == <<
  FlagSpec("l", "lines", FALSE), FlagSpec("w", "words", FALSE),
  FlagSpec("c", "bytes", FALSE), FlagSpec("m", "chars", FALSE) >>

\* wcTranslator once parseArgs has returned parsed
wcCommand(parsed) ==
  LET lines == Truthy(Flag(parsed.flags, "lines"))
      words == Truthy(Flag(parsed.flags, "words"))
      bytes == Truthy(Flag(parsed.flags, "bytes"))
      chars == Truthy(Flag(parsed.flags, "chars"))
      files == psQuoteAll(parsed.positional)
      content == "Get-Content " \o JoinWith(files, ",")
  IN Translated(
       IF lines
       THEN IF Len(files) > 0 THEN "(" \o content \o " | Measure-Object -Line).Lines"
            ELSE "(Measure-Object -Line).Lines"
       ELSE IF words
       THEN IF Len(files) > 0 THEN "(" \o content \o " | Measure-Object -Word).Words"
            ELSE "(Measure-Object -Word).Words"
       ELSE IF chars \/ bytes
       THEN IF Len(files) > 0
            THEN "(" \o content \o " | Measure-Object -Character).Characters"
            ELSE "(Measure-Object -Character).Characters"
       ELSE IF Len(files) > 0 THEN content \o " | Measure-Object -Line -Word -Character"
            ELSE "Measure-Object -Line -Word -Character",
       <<>>, TRUE, "cmdlet")

wcTranslator(cmd, c) == wcCommand(parseArgs(rawArgsOf(cmd), WC_FLAGS))

CAT_FLAGS == <<
  FlagSpec("n", "number", FALSE), FlagSpec("b", "number-nonblank", FALSE),
  FlagSpec("s", "squeeze-blank", FALSE), FlagSpec("E", "show-ends", FALSE),
  FlagSpec("T", "show-tabs", FALSE), FlagSpec("A", "show-all", FALSE) >>

RECURSIVE catOperands(_, _)
\* the arguments of cat that are no flags, in order:
\* !raw.startsWith('-') || raw === '-'
catOperands(args, k) ==
  IF k > Len(args) THEN <<>>
  ELSE LET raw == wordRawString(args[k])
       IN (IF ~StartsWith(raw, "-") \/ raw = "-" THEN <<args[k]>> ELSE <<>>)
          \o catOperands(args, k + 1)

\* catTranslator once its operands are translated to files
catCommand(parsed, files) ==
  LET showNumbers == Truthy(Flag(parsed.flags, "number"))
                     \/ Truthy(Flag(parsed.flags, "number-nonblank"))
  IN Translated(
       IF Len(files) = 0 THEN "Get-Content"
       ELSE "Get-Content " \o JoinWith(files, ",")
            \o (IF showNumbers
                THEN " | ForEach-Object { $i = 0 } { $i++; '{0,6}  {1}' -f $i, $_ }"
                ELSE ""),
       <<>>, TRUE, "cmdlet")

HEAD_FLAGS == <<
  FlagSpec("n", "lines", TRUE), FlagSpec("c", "bytes", TRUE),
  FlagSpec("q", "quiet", FALSE) >>

TAIL_FLAGS == <<
  FlagSpec("n", "lines", TRUE), FlagSpec("c", "bytes", TRUE),
  FlagSpec("f", "follow", FALSE), FlagSpec("q", "quiet", FALSE) >>

\* -N becomes -nN: /^-\d+$/
normalizeBareNumber(args) ==
  [k \in 1..Len(args) |->
     IF Len(args[k]) > 1 /\ Ch(args[k], 0) = "-" /\ AllIn(SliceFrom(args[k], 1), Digits)
     THEN "-n" \o SliceFrom(args[k], 1) ELSE args[k]]

\* lines ?? '10'
lineCount(parsed) ==
  LET lines == Flag(parsed.flags, "lines")
  IN IF lines.kind = "undefined" THEN "10"
     ELSE IF lines.kind = "true" THEN "true" ELSE lines.s

\* headTranslator once parseArgs has returned parsed
headCommand(parsed) ==
  Translated(
    IF Len(parsed.positional) = 0 THEN "Select-Object -First " \o lineCount(parsed)
    ELSE "Get-Content " \o psQuote(parsed.positional[1]) \o " -TotalCount "
         \o lineCount(parsed),
    <<>>, TRUE, "cmdlet")

headTranslator(cmd, c) ==
  headCommand(parseArgs(normalizeBareNumber(rawArgsOf(cmd)), HEAD_FLAGS))

\* tailTranslator once parseArgs has returned parsed
tailCommand(parsed) ==
  Translated(
    IF Len(parsed.positional) = 0 THEN "Select-Object -Last " \o lineCount(parsed)
    ELSE "Get-Content " \o psQuote(parsed.positional[1]) \o " -Tail " \o lineCount(parsed)
         \o (IF Truthy(Flag(parsed.flags, "follow")) THEN " -Wait" ELSE ""),
    <<>>, TRUE, "cmdlet")

tailTranslator(cmd, c) ==
  tailCommand(parseArgs(normalizeBareNumber(rawArgsOf(cmd)), TAIL_FLAGS))

SORT_FLAGS == <<
  FlagSpec("r", "reverse", FALSE), FlagSpec("n", "numeric-sort", FALSE),
  FlagSpec("u", "unique", FALSE), FlagSpec("k", "key", TRUE),
  FlagSpec("t", "field-separator", TRUE), FlagSpec("f", "ignore-case", FALSE) >>

\* sortTranslator once parseArgs has returned parsed
sortCommand(parsed) ==
  LET files == psQuoteAll(parsed.positional)
  IN Translated(
       JoinWith(When(Len(files) > 0, <<"Get-Content " \o JoinWith(files, ","), "|">>)
                \o <<"Sort-Object">>
                \o When(Truthy(Flag(parsed.flags, "numeric-sort")), <<"{ [int]$_ }">>)
                \o When(Truthy(Flag(parsed.flags, "reverse")), <<"-Descending">>)
                \o When(Truthy(Flag(parsed.flags, "unique")), <<"-Unique">>), " "),
       <<>>, TRUE, "cmdlet")

sortTranslator(cmd, c) == sortCommand(parseArgs(rawArgsOf(cmd), SORT_FLAGS))

UNIQ_FLAGS == <<
  FlagSpec("c", "count", FALSE), FlagSpec("d", "repeated", FALSE),
  FlagSpec("u", "unique", FALSE), FlagSpec("i", "ignore-case", FALSE) >>

\* uniqTranslator once parseArgs has returned parsed
uniqCommand(parsed) ==
  LET files == psQuoteAll(parsed.positional)
      base == IF Len(files) > 0 THEN "Get-Content " \o JoinWith(files, ",") \o " | " ELSE ""
  IN Translated(
       IF Truthy(Flag(parsed.flags, "count"))
       THEN base \o "Group-Object | ForEach-Object { '{0,7} {1}' -f $_.Count, $_.Name }"
       ELSE IF Truthy(Flag(parsed.flags, "repeated"))
       THEN base \o "Group-Object | Where-Object { $_.Count -gt 1 } | "
                 \o "Select-Object -ExpandProperty Name"
       ELSE base \o "Get-Unique",
       <<>>, TRUE, "cmdlet")

uniqTranslator(cmd, c) == uniqCommand(parseArgs(rawArgsOf(cmd), UNIQ_FLAGS))

TEE_FLAGS == << FlagSpec("a", "append", FALSE) >>

\* teeTranslator once parseArgs has returned parsed
teeCommand(parsed) ==
  LET files == psQuoteAll(parsed.positional)
  IN Translated(
       IF Len(files) = 0 THEN "Tee-Object"
       ELSE JoinWith(<<"Tee-Object", "-FilePath", files[1]>>
                     \o When(Truthy(Flag(parsed.flags, "append")), <<"-Append">>), " "),
       <<>>, TRUE, "cmdlet")

teeTranslator(cmd, c) == teeCommand(parseArgs(rawArgsOf(cmd), TEE_FLAGS))

\* /^[sy\/0-9,;{}:daipqrwcltDHhGgnNPx=]/
SED_FIRST == Digits \cup {"s", "y", "/", ",", ";", "{", "}", ":", "d", "a", "i", "p", "q",
                          "r", "w", "c", "l", "t", "D", "H", "h", "G", "g", "n", "N",
                          "P", "x", "="}

isSedExpr(s) ==
  \/ Ch(s, 0) \in SED_FIRST
  \/ StartsWith(s, "s/") \/ StartsWith(s, "s|") \/ StartsWith(s, "s#")

\* what . matches in a regular expression: no line end
NoLineEnd(s) == ~Contains(s, "\n") /\ ~Contains(s, "\r")

\* the matches of /^s(.)(.+?)\1(.*?)\1([gipmI]*)$/ on expr, each by the
\* indexes of its second and third delimiter
subMatches(expr) ==
  {m \in (3..(Len(expr) - 1)) \X (4..(Len(expr) - 1)) :
     /\ StartsWith(expr, "s") /\ NoLineEnd(Ch(expr, 1))
     /\ m[1] < m[2]
     /\ Ch(expr, m[1]) = Ch(expr, 1) /\ Ch(expr, m[2]) = Ch(expr, 1)
     /\ NoLineEnd(Slice(expr, 2, m[2]))
     /\ AllIn(SliceFrom(expr, m[2] + 1), {"g", "i", "p", "m", "I"})}

\* the match the lazy quantifiers find: the shortest pattern, then the
\* shortest replacement
subMatch(expr) ==
  CHOOSE m \in subMatches(expr) :
    \A n \in subMatches(expr) : m[1] < n[1] \/ (m[1] = n[1] /\ m[2] <= n[2])

\* the replacement of a substitution in PowerShell's notation
sedReplacement(replacement) ==
  ReplaceAll(ReplaceAll(ReplaceAll(ReplaceAll(ReplaceAll(ReplaceAll(
    replacement, "\\1", "$1"), "\\2", "$2"), "\\3", "$3"), "\\4", "$4"), "\\5", "$5"),
    "&", "$0")

\* /^(\d+)$/
AllDigits(s) == s # "" /\ AllIn(s, Digits)

\* parseSedExpression: <<command>>, or <<>> for null
parseSedExpression(expr) ==
  IF subMatches(expr) # {}
  THEN LET m == subMatch(expr)
           pattern == Slice(expr, 2, m[1])
           replacement == Slice(expr, m[1] + 1, m[2])
       IN << "ForEach-Object { $_ -replace '" \o ReplaceAll(pattern, "'", "''") \o "','"
             \o ReplaceAll(sedReplacement(replacement), "'", "''") \o "' }" >>
  ELSE IF Len(expr) >= 4 /\ StartsWith(expr, "/") /\ EndsWith(expr, "/d")
          /\ NoLineEnd(Slice(expr, 1, Len(expr) - 2))
  THEN << "Where-Object { $_ -notmatch '"
          \o ReplaceAll(Slice(expr, 1, Len(expr) - 2), "'", "''") \o "' }" >>
  ELSE IF EndsWith(expr, "d") /\ AllDigits(Slice(expr, 0, Len(expr) - 1))
  THEN << "Where-Object { $_.ReadCount -ne " \o NumStr(ParseInt(expr)) \o " }" >>
  ELSE IF Len(expr) >= 4 /\ StartsWith(expr, "/") /\ EndsWith(expr, "/p")
          /\ NoLineEnd(Slice(expr, 1, Len(expr) - 2))
  THEN << "Where-Object { $_ -match '"
          \o ReplaceAll(Slice(expr, 1, Len(expr) - 2), "'", "''") \o "' }" >>
  ELSE IF EndsWith(expr, "p") /\ IndexOf(expr, ",") > 0
          /\ AllDigits(Slice(expr, 0, IndexOf(expr, ",")))
          /\ AllDigits(Slice(expr, IndexOf(expr, ",") + 1, Len(expr) - 1))
  THEN LET start == ParseInt(expr)
           end == ParseInt(SliceFrom(expr, IndexOf(expr, ",") + 1))
       IN << "Select-Object -Skip " \o NumStr(start - 1) \o " -First "
             \o NumStr(end - start + 1) >>
  ELSE IF EndsWith(expr, "p") /\ AllDigits(Slice(expr, 0, Len(expr) - 1))
  THEN << "Select-Object -Skip " \o NumStr(ParseInt(expr) - 1) \o " -First 1" >>
  ELSE <<>>

\* what the argument loop of sedTranslator has collected; inPlaceBackup is ""
\* for null, which the code tells apart from a string by truthiness only
NoSedArgs == [inPlace |-> FALSE, inPlaceBackup |-> "", expressions |-> <<>>,
              files |-> <<>>, quiet |-> FALSE]

RECURSIVE sedArgs(_, _, _)
\* the argument loop of sedTranslator from rawArgs[k - 1] on
sedArgs(rawArgs, k, a) ==
  IF k > Len(rawArgs) THEN a
  ELSE LET arg == rawArgs[k]
           more == k + 1 <= Len(rawArgs)
       IN IF arg = "-i" \/ arg = "--in-place"
          THEN IF more /\ ~StartsWith(rawArgs[k + 1], "-") /\ ~isSedExpr(rawArgs[k + 1])
               THEN sedArgs(rawArgs, k + 2,
                            [a EXCEPT !.inPlace = TRUE, !.inPlaceBackup = rawArgs[k + 1]])
               ELSE sedArgs(rawArgs, k + 1, [a EXCEPT !.inPlace = TRUE])
          ELSE IF StartsWith(arg, "-i") /\ Len(arg) > 2
          THEN sedArgs(rawArgs, k + 1,
                       [a EXCEPT !.inPlace = TRUE, !.inPlaceBackup = SliceFrom(arg, 2)])
          ELSE IF arg = "-e" \/ arg = "--expression"
          THEN IF more
               THEN sedArgs(rawArgs, k + 2,
                            [a EXCEPT !.expressions = Append(@, rawArgs[k + 1])])
               ELSE sedArgs(rawArgs, k + 1, a)
          ELSE IF arg = "-n" \/ arg = "--quiet" \/ arg = "--silent"
          THEN sedArgs(rawArgs, k + 1, [a EXCEPT !.quiet = TRUE])
          ELSE IF StartsWith(arg, "-")
          THEN sedArgs(rawArgs, k + 1, a)
          ELSE IF Len(a.expressions) = 0 /\ isSedExpr(arg)
          THEN sedArgs(rawArgs, k + 1, [a EXCEPT !.expressions = Append(@, arg)])
          ELSE sedArgs(rawArgs, k + 1, [a EXCEPT !.files = Append(@, arg)])

RECURSIVE sedCommands(_, _)
\* psCommands: the expressions parseSedExpression could parse
sedCommands(expressions, k) ==
  IF k > Len(expressions) THEN <<>>
  ELSE parseSedExpression(expressions[k]) \o sedCommands(expressions, k + 1)

RECURSIVE sedWarnings(_, _)
sedWarnings(expressions, k) ==
  IF k > Len(expressions) THEN <<>>
  ELSE (IF parseSedExpression(expressions[k]) = <<>>
        THEN <<"sed: could not parse expression: " \o expressions[k]>> ELSE <<>>)
       \o sedWarnings(expressions, k + 1)

sedTranslator(cmd, c) ==
  LET a == sedArgs(rawArgsOf(cmd), 1, NoSedArgs)
      psCommands == sedCommands(a.expressions, 1)
      warnings == sedWarnings(a.expressions, 1)
      chain == JoinWith(psCommands, " | ")
      escapedFiles == psQuoteAll(a.files)
      n == Len(escapedFiles)
  IN IF Len(a.expressions) = 0
     THEN Translated("# sed: no expression provided", <<"sed: missing expression">>,
                     TRUE, "cmdlet")
     ELSE IF Len(psCommands) = 0
     THEN Translated("# sed: unsupported expression", warnings, TRUE, "cmdlet")
     ELSE IF a.inPlace /\ n > 0
     THEN IF a.inPlaceBackup # ""
          THEN Translated(
                 JoinWith([k \in 1..n |->
                             "Copy-Item " \o escapedFiles[k] \o " (" \o escapedFiles[k]
                             \o " + '" \o a.inPlaceBackup \o "')"], "; ")
                 \o "; "
                 \o JoinWith([k \in 1..n |->
                                "(Get-Content " \o escapedFiles[k] \o ") | " \o chain
                                \o " | Set-Content " \o escapedFiles[k]], "; "),
                 warnings, TRUE, "cmdlet")
          ELSE Translated(
                 JoinWith([k \in 1..n |->
                             IF Len(psCommands) = 1
                                /\ StartsWith(psCommands[1], "ForEach-Object")
                             THEN "$content = Get-Content " \o escapedFiles[k]
                                  \o "; $content | " \o psCommands[1]
                                  \o " | Set-Content " \o escapedFiles[k]
                             ELSE "$content = Get-Content " \o escapedFiles[k]
                                  \o "; ($content | " \o chain \o ") | Set-Content "
                                  \o escapedFiles[k]], "; "),
                 warnings, TRUE, "cmdlet")
     ELSE IF n > 0
     THEN Translated("Get-Content " \o JoinWith(escapedFiles, ",") \o " | " \o chain,
                     warnings, TRUE, "cmdlet")
     ELSE Translated(chain, warnings, TRUE, "cmdlet")

\* /^\{\s*print/ on program: the index after print, -1 without a match
awkPrint(program) ==
  LET k == ScanWhile(program, 1, WHITESPACE)
  IN IF Ch(program, 0) = "{" /\ Slice(program, k, k + 5) = "print" THEN k + 5 ELSE -1

\* /\s*\}$/ on program from k
awkClose(program, k) ==
  ScanWhile(program, k, WHITESPACE) = Len(program) - 1 /\ EndsWith(program, "}")

\* /^\{\s*print\s+\$([1-9]\d*)\s*\}$/: the digits of the group, "" without
\* a match
printFieldMatch(program) ==
  LET k == awkPrint(program)
      d == ScanWhile(program, k, WHITESPACE)
      e == ScanWhile(program, d + 1, Digits)
  IN IF k >= 0 /\ d > k /\ Ch(program, d) = "$" /\ e > d + 1
        /\ Ch(program, d + 1) # "0" /\ awkClose(program, e)
     THEN Slice(program, d + 1, e) ELSE ""

\* /^\{\s*print\s+([\$\d\s,"]+)\s*\}$/: whether program matches; the text
\* between print and the closing brace then holds the group
multiFieldMatch(program) ==
  LET k == awkPrint(program)
      between == Slice(program, k, Len(program) - 1)
  IN /\ k >= 0 /\ EndsWith(program, "}")
     /\ Len(between) >= 2 /\ Ch(between, 0) \in WHITESPACE
     /\ AllIn(between, Digits \cup WHITESPACE \cup {"$", ",", "\""})

RECURSIVE awkFields(_, _)
\* str.match(/\$([1-9]\d*)/g) mapped to parseInt(f.slice(1), 10) - 1
awkFields(str, k) ==
  IF k >= Len(str) THEN <<>>
  ELSE IF Ch(str, k) = "$" /\ Ch(str, k + 1) \in Digits \ {"0"}
  THEN LET e == ScanWhile(str, k + 1, Digits)
       IN <<ParseInt(Slice(str, k + 1, e)) - 1>> \o awkFields(str, e)
  ELSE awkFields(str, k + 1)

\* /^\{\s*print(\s+\$0)?\s*\}$/
printAllMatch(program) ==
  LET k == awkPrint(program)
      d == ScanWhile(program, k, WHITESPACE)
  IN k >= 0 /\ (awkClose(program, k)
                \/ (d > k /\ Slice(program, d, d + 2) = "$0" /\ awkClose(program, d + 2)))

\* /^NR\s*==\s*(\d+)$/: the digits of the group, "" without a match
nrMatch(program) ==
  LET k == ScanWhile(program, 2, WHITESPACE)
      d == ScanWhile(program, k + 2, WHITESPACE)
  IN IF StartsWith(program, "NR") /\ Slice(program, k, k + 2) = "=="
        /\ d < Len(program) /\ AllIn(SliceFrom(program, d), Digits)
     THEN SliceFrom(program, d) ELSE ""

\* the index of the last / of program, -1 when it has none
lastSlash(program) ==
  IF ~Contains(program, "/") THEN -1
  ELSE CHOOSE k \in 0..(Len(program) - 1) :
         Ch(program, k) = "/" /\ ~Contains(SliceFrom(program, k + 1), "/")

\* /^\/(.+)\/(\s*\{\s*print\s*\})?$/: the group, "" without a match
patternMatch(program) ==
  LET k == lastSlash(program)
      rest == SliceFrom(program, k + 1)
      b == ScanWhile(rest, 0, WHITESPACE)
      q == ScanWhile(rest, b + 1, WHITESPACE)
  IN IF /\ StartsWith(program, "/") /\ k >= 2 /\ NoLineEnd(Slice(program, 1, k))
        /\ \/ rest = ""
           \/ /\ Ch(rest, b) = "{" /\ Slice(rest, q, q + 5) = "print"
              /\ awkClose(rest, q + 5)
     THEN Slice(program, 1, k) ELSE ""

\* /^\{\s*print\s+NF\s*\}$/
printNFMatch(program) ==
  LET k == awkPrint(program)
      d == ScanWhile(program, k, WHITESPACE)
  IN k >= 0 /\ d > k /\ Slice(program, d, d + 2) = "NF" /\ awkClose(program, d + 2)

\* translateAwkProgram: <<command>>, or <<>> for null; fieldSep is "" for
\* null, which the code tells apart from a string by truthiness only
translateAwkProgram(program, fieldSep) ==
  LET sep == IF fieldSep # "" THEN "'" \o fieldSep \o "'" ELSE "' '"
      fields == awkFields(Slice(program, awkPrint(program), Len(program) - 1), 0)
  IN IF printFieldMatch(program) # ""
     THEN << "ForEach-Object { ($_ -split " \o sep \o ")["
             \o NumStr(ParseInt(printFieldMatch(program)) - 1) \o "] }" >>
     ELSE IF multiFieldMatch(program) /\ Len(fields) > 0
     THEN << "ForEach-Object { "
             \o JoinWith([k \in 1..Len(fields) |->
                            "($_ -split " \o sep \o ")[" \o NumStr(fields[k]) \o "]"],
                         " + ' ' + ")
             \o " }" >>
     ELSE IF printAllMatch(program) THEN << "ForEach-Object { $_ }" >>
     ELSE IF nrMatch(program) # ""
     THEN << "Select-Object -Skip " \o NumStr(ParseInt(nrMatch(program)) - 1)
             \o " -First 1" >>
     ELSE IF patternMatch(program) # ""
     THEN << "Where-Object { $_ -match '" \o patternMatch(program) \o "' }" >>
     ELSE IF printNFMatch(program)
     THEN << "ForEach-Object { ($_ -split " \o sep \o ").Count }" >>
     ELSE <<>>

NoAwkArgs == [fieldSep |-> "", program |-> "", files |-> <<>>]

RECURSIVE awkArgs(_, _, _)
\* the argument loop of awkTranslator from rawArgs[k - 1] on
awkArgs(rawArgs, k, a) ==
  IF k > Len(rawArgs) THEN a
  ELSE LET arg == rawArgs[k]
       IN IF arg = "-F" /\ k + 1 <= Len(rawArgs)
          THEN awkArgs(rawArgs, k + 2, [a EXCEPT !.fieldSep = rawArgs[k + 1]])
          ELSE IF StartsWith(arg, "-F") /\ Len(arg) > 2
          THEN awkArgs(rawArgs, k + 1, [a EXCEPT !.fieldSep = SliceFrom(arg, 2)])
          ELSE IF a.program = "" /\ ~StartsWith(arg, "-")
          THEN awkArgs(rawArgs, k + 1, [a EXCEPT !.program = arg])
          ELSE IF a.program # "" /\ ~StartsWith(arg, "-")
          THEN awkArgs(rawArgs, k + 1, [a EXCEPT !.files = Append(@, arg)])
          ELSE awkArgs(rawArgs, k + 1, a)

awkTranslator(cmd, c) ==
  LET a == awkArgs(rawArgsOf(cmd), 1, NoAwkArgs)
      translated == translateAwkProgram(a.program, a.fieldSep)
  IN IF a.program = ""
     THEN Translated("# awk: no program specified", <<"awk: missing program">>, TRUE,
                     "cmdlet")
     ELSE IF translated = <<>>
     THEN Translated("# awk '" \o a.program \o "' → manual translation needed",
                     <<"awk: complex program not fully translatable: " \o a.program>>,
                     TRUE, "cmdlet")
     ELSE IF Len(a.files) > 0
     THEN Translated("Get-Content " \o JoinWith(psQuoteAll(a.files), ",") \o " | "
                     \o translated[1], <<>>, TRUE, "cmdlet")
     ELSE Translated(translated[1], <<>>, TRUE, "cmdlet")

\* the names commands/index.ts registers a translator for
REGISTRY ==
  {"grep", "egrep", "fgrep", "find", "ls", "ll", "cat", "head", "tail", "echo",
   "printf", "rm", "cp", "mv", "mkdir", "touch", "ln", "chmod", "sed", "awk", "gawk",
   "wc", "which", "command", "ps", "kill", "curl", "wget", "sort", "uniq", "tr", "tee",
   "diff", "xargs", "basename", "dirname", "realpath", "readlink", "export", "unset",
   "env", "test", "[", "cut", "lsof", "pkill", "killall", "pgrep", "zip", "unzip",
   "true", "false", "cd", "pwd", "clear", "sleep", "date", "whoami", "uname", "du",
   "df", "history", "exit", "mktemp", "nohup", "sudo", "seq", "source", "."}

\* getTranslator(name) finds one
hasTranslator(name) == name \in REGISTRY

\* the translators modelled below; the inputs of the specifications name no
\* other registered command
MODELLED == {"grep", "egrep", "fgrep", "find", "curl", "wget", "sudo", "cd", "true",
             "false", "pwd", "clear", "whoami", "history", "wc", "cat", "head", "tail",
             "sort", "uniq", "tee", "sed", "awk", "gawk"}

(***************************************************************************)
(* Transformer: the functions that carry the TransformContext              *)
(***************************************************************************)

\* How a function of the transformer ends: "ok" with the string (or the
\* strings) it returns, "throw" with the message of the error, or "hang"
\* when a nested lex or parse does not end; ctx is the context as the
\* function leaves it.
Done(out, c) == [st |-> "ok", out |-> out, ctx |-> c, msg |-> ""]
Fails(msg, c) == [st |-> "throw", out |-> "", ctx |-> c, msg |-> msg]
Loops(c) == [st |-> "hang", out |-> "", ctx |-> c, msg |-> ""]

\* ctx.warnings.push(w)
pushWarning(c, w) == [c EXCEPT !.warnings = Append(@, w)]

\* parse(lex(input)) as translateCommandSub calls it; l is what lex returned
parseLexed(l) == IF l.st = "hang" THEN Hung(0) ELSE parse(l.tokens)

\* The functions of the transformer that call each other do so through
\* translateOne(kind, item, c), which names the callee by the kind of the
\* item, and through translateEach for a map over items.
RECURSIVE translateOne(_, _, _), translateEach(_, _, _)

\* items.map(...) in order, stopped by the first callback that does not return
translateEach(kind, items, c) ==
  IF Len(items) = 0 THEN Done(<<>>, c)
  ELSE LET h == translateOne(kind, Head(items), c)
       IN IF h.st # "ok" THEN h
          ELSE LET t == translateEach(kind, Tail(items), h.ctx)
               IN IF t.st # "ok" THEN t ELSE Done(<<h.out>> \o t.out, t.ctx)

translateWord(word, c) ==
  LET translated == translatePathInArgs(word)
  IN IF Len(translated.parts) = 0 THEN Done("''", c)
     ELSE IF Len(translated.parts) = 1 THEN translateOne("part", translated.parts[1], c)
     ELSE translateOne("compound", translated.parts, c)

translateSinglePart(part, c) ==
  CASE part.type = "Literal" -> Done(translateLiteral(part), c)
    [] part.type = "Variable" ->
         (LET v == translateVarName(part.name, part.braced)
          IN IF v.st = "ok" THEN Done(v.out, c) ELSE Fails(v.msg, c))
    [] part.type = "CommandSubstitution" -> translateOne("substitution", part, c)
    [] OTHER -> Done("", c)

\* translateCommandSub once parse(lex(part.command)) has ended as innerAst
translateInnerAst(part, c, innerAst) ==
  LET raw == "$(" \o part.command \o ")"
      caught(c1) == Done(raw, pushWarning(c1, "Could not parse command substitution: "
                                               \o raw))
      innerPs == translateOne("script", innerAst.node, c)
  IN IF innerAst.st = "hang" THEN Loops(c)
     ELSE IF innerAst.st = "throw" THEN caught(c)
     ELSE IF innerPs.st = "hang" THEN innerPs
     ELSE IF innerPs.st = "throw" THEN caught(innerPs.ctx)
     ELSE Done("$(" \o innerPs.out \o ")", innerPs.ctx)

translateCommandSub(part, c) == translateInnerAst(part, c, parseLexed(lex(part.command)))

\* the callback of the map of translateCompoundWord over the parts of a
\* word it puts between double quotes
translateInnerPart(part, c) ==
  CASE part.type = "Literal" ->
         Done(IF part.quoting = "dollar-single" /\ AnyIn(part.value, CONTROL)
              THEN psEscapes(part.value, FALSE)
              ELSE escapePsDoubleQuote(part.value), c)
    [] part.type = "Variable" ->
         (LET v == translateVarName(part.name, part.braced)
          IN IF v.st = "ok" THEN Done(v.out, c) ELSE Fails(v.msg, c))
    [] OTHER -> translateOne("substitution", part, c)

translateCompoundWord(parts, c) ==
  IF \A k \in 1..Len(parts) :
       parts[k].type \in {"Literal", "Variable", "CommandSubstitution"}
  THEN LET inner == translateEach("inner", parts, c)
       IN IF inner.st # "ok" THEN inner
          ELSE Done("\"" \o JoinWith(inner.out, "") \o "\"", inner.ctx)
  ELSE LET segments == translateEach("part", parts, c)
       IN IF segments.st # "ok" THEN segments
          ELSE Done("(" \o JoinWith(segments.out, " + ") \o ")", segments.ctx)

\* translateRedirect with the descriptor written before every operator
translateRedirectWithFd(r, c) ==
  IF r.targetFd # NoFd THEN Done(NumStr(r.fd) \o ">&" \o NumStr(r.targetFd), c)
  ELSE LET t == translateOne("word", translatePath(r.target), c)
           targetStr == t.out
           fdPrefix == IF r.fd > 1 THEN NumStr(r.fd) ELSE ""
       IN IF t.st # "ok" THEN t
          ELSE IF targetStr = "$null"
          THEN Done(CASE r.op = ">" -> fdPrefix \o ">$null"
                      [] r.op = ">>" -> fdPrefix \o ">>$null"
                      [] OTHER -> "", t.ctx)
          ELSE Done(CASE r.op = ">" -> fdPrefix \o "> " \o targetStr
                      [] r.op = ">>" -> fdPrefix \o ">> " \o targetStr
                      [] r.op = "<" -> fdPrefix \o "< " \o targetStr
                      [] r.op = "<<<" -> "(" \o targetStr \o ") |"
                      [] OTHER -> "", t.ctx)

translateRedirect(r, c) ==
  IF r.targetFd # NoFd THEN Done(NumStr(r.fd) \o ">&" \o NumStr(r.targetFd), c)
  ELSE LET t == translateOne("word", translatePath(r.target), c)
           targetStr == t.out
           fdPrefix == IF r.fd > 1 THEN NumStr(r.fd) ELSE ""
       IN IF t.st # "ok" THEN t
          ELSE IF targetStr = "$null"
          THEN Done(CASE r.op = ">" -> fdPrefix \o ">$null"
                      [] r.op = ">>" -> fdPrefix \o ">>$null"
                      [] OTHER -> "", t.ctx)
          ELSE Done(CASE r.op = ">" -> fdPrefix \o "> " \o targetStr
                      [] r.op = ">>" -> fdPrefix \o ">> " \o targetStr
                      [] r.op = "<" -> "< " \o targetStr
                      [] r.op = "<<<" -> "(" \o targetStr \o ") |"
                      [] OTHER -> "", t.ctx)

translateScript(script, c) ==
  LET stmts == translateEach("statement", script.body, c)
  IN IF stmts.st # "ok" THEN stmts ELSE Done(JoinWith(stmts.out, "; "), stmts.ctx)

translateStatement(stmt, c) ==
  CASE stmt.type = "Pipeline" -> translateOne("pipeline", stmt, c)
    [] stmt.type = "LogicalExpr" -> translateOne("logical", stmt, c)
    [] stmt.type = "AssignmentStatement" ->
         (LET a == translateEach("assignment", stmt.assignments, c)
          IN IF a.st # "ok" THEN a ELSE Done(JoinWith(a.out, "; "), a.ctx))
    [] OTHER -> Done("", c)

translatePipeline(pipeline, c) ==
  LET commands == translateEach("command", pipeline.commands, c)
      joined == JoinWith(commands.out, " | ")
  IN IF commands.st # "ok" THEN commands
     ELSE Done(IF pipeline.negated THEN "!(" \o joined \o ")" ELSE joined, commands.ctx)

translateLogicalExpr(expr, c) ==
  LET left == translateOne("statement", expr.left, c)
      right == translateOne("statement", expr.right, left.ctx)
  IN IF left.st # "ok" THEN left
     ELSE IF right.st # "ok" THEN right
     ELSE Done(CASE expr.operator = "&&" ->
                      left.out \o "; if ($?) { " \o right.out \o " }"
                 [] expr.operator = "||" ->
                      left.out \o "; if (-not $?) { " \o right.out \o " }"
                 [] OTHER -> left.out \o "; " \o right.out, right.ctx)

translateAssignment(a, c) ==
  IF a.value = null THEN Done("$env:" \o a.name \o " = ''", c)
  ELSE LET value == translateOne("word", a.value, c)
       IN IF value.st # "ok" THEN value
          ELSE Done("$env:" \o a.name \o " = " \o value.out, value.ctx)

translateCommand(cmd, c) ==
  IF cmd.type = "Subshell" THEN translateOne("subshell", cmd, c)
  ELSE translateOne("simple", cmd, c)

translateSubshell(cmd, c) ==
  LET inner == translateOne("script", cmd.body, c)
      redirects == translateEach("redirect", cmd.redirects, inner.ctx)
      joined == JoinWith(redirects.out, " ")
      base == "& { " \o inner.out \o " }"
  IN IF inner.st # "ok" THEN inner
     ELSE IF redirects.st # "ok" THEN redirects
     ELSE Done(IF joined # "" THEN base \o " " \o joined ELSE base, redirects.ctx)

\* the callback of the map of the cd translator over its arguments
translateCdArg(word, c) ==
  LET raw == literalString(word)
  IN IF raw \in {"~", ""} THEN Done("$env:USERPROFILE", c)
     ELSE IF raw = "-" THEN Done("$OLDPWD", c)
     ELSE translateOne("word", word, c)

\* translator(cmd, ctx, translateWord) for the translator registered as
\* name: out is the TranslatedCommand it returns
invokeTranslator(name, cmd, c) ==
  CASE name \in {"grep", "egrep", "fgrep"} -> Done(grepTranslator(cmd, c), c)
    [] name = "find" -> Done(findTranslator(cmd, c), c)
    [] name = "wget" -> Done(wgetTranslator(cmd, c), c)
    [] name = "sed" -> Done(sedTranslator(cmd, c), c)
    [] name \in {"awk", "gawk"} -> Done(awkTranslator(cmd, c), c)
    [] name = "wc" -> Done(wcTranslator(cmd, c), c)
    [] name = "head" -> Done(headTranslator(cmd, c), c)
    [] name = "tail" -> Done(tailTranslator(cmd, c), c)
    [] name = "sort" -> Done(sortTranslator(cmd, c), c)
    [] name = "uniq" -> Done(uniqTranslator(cmd, c), c)
    [] name = "tee" -> Done(teeTranslator(cmd, c), c)
    [] name = "cat" ->
         (LET files == translateEach("word", catOperands(cmd.args, 1), c)
          IN IF files.st # "ok" THEN files
             ELSE Done(catCommand(parseArgs(rawArgsOf(cmd), CAT_FLAGS), files.out),
                       files.ctx))
    [] name = "curl" ->
         (IF c.tools.curl
          THEN LET args == translateEach("word", cmd.args, c)
               IN IF args.st # "ok" THEN args
                  ELSE Done(Translated(JoinWith(<<"curl.exe">> \o args.out, " "),
                                       <<>>, FALSE, "native"), args.ctx)
          ELSE Done(curlFallback(cmd), c))
    [] name = "true" -> Done(Translated("$true", <<>>, TRUE, "cmdlet"), c)
    [] name = "false" -> Done(Translated("$false", <<>>, TRUE, "cmdlet"), c)
    [] name = "pwd" -> Done(Translated("(Get-Location).Path", <<>>, TRUE, "cmdlet"), c)
    [] name = "clear" -> Done(Translated("Clear-Host", <<>>, TRUE, "cmdlet"), c)
    [] name = "whoami" ->
         Done(Translated("[System.Security.Principal.WindowsIdentity]::GetCurrent().Name",
                         <<>>, TRUE, "cmdlet"), c)
    [] name = "history" -> Done(Translated("Get-History", <<>>, TRUE, "cmdlet"), c)
    [] name = "cd" ->
         (LET args == translateEach("cd", cmd.args, c)
          IN IF args.st # "ok" THEN args
             ELSE Done(Translated("Set-Location "
                                  \o (IF Len(args.out) > 0 THEN args.out[1]
                                      ELSE "$env:USERPROFILE"),
                                  <<>>, TRUE, "cmdlet"), args.ctx))
    [] name = "sudo" ->
         (IF Len(cmd.args) = 0
          THEN Done(Translated("# sudo: missing command", <<"sudo: no command specified">>,
                               TRUE, "cmdlet"), c)
          ELSE LET innerCmd == [type |-> "SimpleCommand", assignments |-> <<>>,
                                name |-> cmd.args[1], args |-> Tail(cmd.args),
                                redirects |-> cmd.redirects]
                   innerName == literalString(cmd.args[1])
                   inner == translateOne("translator",
                                         [name |-> innerName, cmd |-> innerCmd], c)
                   args == translateEach("word", cmd.args, c)
               IN IF hasTranslator(innerName)
                  THEN IF inner.st # "ok" THEN inner
                       ELSE Done([inner.out EXCEPT !.warnings =
                                    Append(@, "sudo: stripped (not applicable on Windows)")],
                                 inner.ctx)
                  ELSE IF args.st # "ok" THEN args
                  ELSE Done(Translated(JoinWith(args.out, " "),
                                       <<"sudo: stripped (not applicable on Windows)">>,
                                       TRUE, "cmdlet"), args.ctx))
    [] OTHER -> Done(Translated(name, <<>>, TRUE, "cmdlet"), c)

\* recordTranslated as it would be if it assigned the flag of the last
\* translator: `ctx.usedFallbacks = result.usedFallback`
recordTranslatedLast(c, translated) ==
  [c EXCEPT !.usedFallbacks = translated.usedFallback,
            !.warnings = @ \o translated.warnings,
            !.taken = @ \cup {translated.branch}]

\* what translateSimpleCommand records of the TranslatedCommand a translator
\* returned: `if (result.usedFallback) ctx.usedFallbacks = true;
\* ctx.warnings.push(...result.warnings)`
recordTranslated(c, translated) ==
  [c EXCEPT !.usedFallbacks = @ \/ translated.usedFallback,
            !.warnings = @ \o translated.warnings,
            !.taken = @ \cup {translated.branch}]

translateSimpleCommand(cmd, c) ==
  LET assigned == translateEach("assignment", cmd.assignments, c)
      prefix == IF Len(cmd.assignments) > 0 THEN JoinWith(assigned.out, "; ") \o "; "
                ELSE ""
      cmdName == wordToString(cmd.name)
      translated == translateOne("translator", [name |-> cmdName, cmd |-> cmd],
                                 assigned.ctx)
      c1 == recordTranslated(translated.ctx, translated.out)
      args == translateEach("word", cmd.args, assigned.ctx)
      redirects == translateEach("redirect", cmd.redirects,
                                 IF hasTranslator(cmdName) THEN c1 ELSE args.ctx)
      joined == JoinWith(redirects.out, " ")
      tail == IF joined # "" THEN " " \o joined ELSE ""
  IN IF assigned.st # "ok" THEN assigned
     ELSE IF cmd.name = null
     THEN Done(IF Len(cmd.assignments) > 0 THEN JoinWith(assigned.out, "; ") ELSE "",
               assigned.ctx)
     ELSE IF hasTranslator(cmdName)
     THEN IF translated.st # "ok" THEN translated
          ELSE IF redirects.st # "ok" THEN redirects
          ELSE Done(prefix \o translated.out.command \o tail, redirects.ctx)
     ELSE IF args.st # "ok" THEN args
     ELSE IF redirects.st # "ok" THEN redirects
     ELSE Done(prefix \o JoinWith(<<cmdName>> \o args.out, " ") \o tail, redirects.ctx)

translateOne(kind, item, c) ==
  CASE kind = "word" -> translateWord(item, c)
    [] kind = "part" -> translateSinglePart(item, c)
    [] kind = "substitution" -> translateCommandSub(item, c)
    [] kind = "compound" -> translateCompoundWord(item, c)
    [] kind = "inner" -> translateInnerPart(item, c)
    [] kind = "redirect" -> translateRedirect(item, c)
    [] kind = "script" -> translateScript(item, c)
    [] kind = "statement" -> translateStatement(item, c)
    [] kind = "pipeline" -> translatePipeline(item, c)
    [] kind = "logical" -> translateLogicalExpr(item, c)
    [] kind = "assignment" -> translateAssignment(item, c)
    [] kind = "command" -> translateCommand(item, c)
    [] kind = "subshell" -> translateSubshell(item, c)
    [] kind = "simple" -> translateSimpleCommand(item, c)
    [] kind = "cd" -> translateCdArg(item, c)
    [] OTHER -> invokeTranslator(item.name, item.cmd, c)

(***************************************************************************)
(* Orchestrator (index.ts)                                                 *)
(***************************************************************************)

isBlank(str) == AllIn(str, {" ", "\t", "\n", "\r"})

ToolAvailability(rg, fd, curl, jq) == [rg |-> rg, fd |-> fd, curl |-> curl, jq |-> jq]

\* the TransformContext a call starts with; taken is a history field, not in
\* the source: the branches the translators invoked so far have taken
TransformContext(availableTools) ==
  [tools |-> availableTools, warnings |-> <<>>, unsupported |-> <<>>,
   usedFallbacks |-> FALSE, taken |-> {}]

\* What a call returned: the string of transpile ("string") or the
\* TranspileResult of transpileWithMeta ("record"), whose warnings and
\* unsupported fields name arrays of the store `arrays`.
NoResult == [kind |-> "none", powershell |-> "", usedFallbacks |-> FALSE,
             warnings |-> "", unsupported |-> ""]

StringResult(powershell) == [NoResult EXCEPT !.kind = "string", !.powershell = powershell]

TranspileResult(powershell, usedFallbacks, warnings, unsupported) ==
  [kind |-> "record", powershell |-> powershell, usedFallbacks |-> usedFallbacks,
   warnings |-> warnings, unsupported |-> unsupported]

\* the frozen object; its two arrays are created once, with the module
EMPTY_RESULT == TranspileResult("", FALSE, "EMPTY_RESULT.warnings",
                                "EMPTY_RESULT.unsupported")

\* the arrays of the store: those of EMPTY_RESULT and those of the two
\* results a caller holds at a time
REFS == {"EMPTY_RESULT.warnings", "EMPTY_RESULT.unsupported",
         "a.warnings", "a.unsupported", "b.warnings", "b.unsupported"}

\* arrays a returning call creates: none of those the kept result names
fresh == IF kept.warnings = "a.warnings" THEN "b" ELSE "a"

\* `# TRANSPILE ERROR: ${message}\n# Original: ${bash}`
errorComment(message, input) ==
  "# TRANSPILE ERROR: " \o message \o "\n# Original: " \o input

\* what the call in progress returns when its work ends with powershell
returned(powershell) ==
  /\ result' = IF api = "transpile" THEN StringResult(powershell)
               ELSE TranspileResult(powershell, ctx'.usedFallbacks,
                                    fresh \o ".warnings", fresh \o ".unsupported")
  /\ arrays' = IF api = "transpile" THEN arrays
               ELSE [arrays EXCEPT ![fresh \o ".warnings"] = ctx'.warnings,
                                   ![fresh \o ".unsupported"] = ctx'.unsupported]
  /\ pc' = "done"

\* catchBlock as it would be if it returned what the context holds, as the
\* try block does, with the entry of the failure pushed on ctx.warnings
catchBlockOfContext(message) ==
  /\ result' = IF api = "transpile" THEN StringResult(errorComment(message, bash))
               ELSE TranspileResult(errorComment(message, bash), ctx'.usedFallbacks,
                                    fresh \o ".warnings", fresh \o ".unsupported")
  /\ arrays' = IF api = "transpile" THEN arrays
               ELSE [arrays EXCEPT
                       ![fresh \o ".warnings"] =
                         Append(ctx'.warnings, "Transpilation failed: " \o message),
                       ![fresh \o ".unsupported"] = Append(ctx'.unsupported, bash)]
  /\ pc' = "failed"

\* the catch block of transpile and of transpileWithMeta: the call returns
\* from it ("failed") and not from its try block ("done")
catchBlock(message) ==
  /\ result' = IF api = "transpile" THEN StringResult(errorComment(message, bash))
               ELSE TranspileResult(errorComment(message, bash), FALSE,
                                    fresh \o ".warnings", fresh \o ".unsupported")
  /\ arrays' = IF api = "transpile" THEN arrays
               ELSE [arrays EXCEPT
                       ![fresh \o ".warnings"] = <<"Transpilation failed: " \o message>>,
                       ![fresh \o ".unsupported"] = <<bash>>]
  /\ pc' = "failed"

\* the commands a host may have on its PATH
Commands == {"rg", "fd"}

\* isAvailable(cmd): `where cmd` ends without an error
isAvailable(cmd, path) == cmd \in path

\* detectTools() as it would be if it consulted the PATH at every call
detectToolsProbing(cache, path) ==
  LET probe == ToolAvailability(isAvailable("rg", path), isAvailable("fd", path),
                                isAvailable("curl.exe", path), isAvailable("jq", path))
  IN [cached |-> <<probe>>, out |-> probe, probed |-> TRUE]

\* detectTools() with the module variable as cache and the host's PATH as
\* path: the module variable after it, what it returns, and whether it ran
\* the probe
detectTools(cache, path) ==
  IF cache # <<>> THEN [cached |-> cache, out |-> cache[1], probed |-> FALSE]
  ELSE LET probe == ToolAvailability(isAvailable("rg", path), isAvailable("fd", path),
                                     isAvailable("curl.exe", path),
                                     isAvailable("jq", path))
       IN [cached |-> <<probe>>, out |-> probe, probed |-> TRUE]

\* resetToolCache(): the module variable after it
resetToolCache == <<>>

Init ==
  /\ pc = "idle"
  /\ api = "transpile"
  /\ bash = ""
  /\ tools = ToolAvailability(FALSE, FALSE, FALSE, FALSE)
  /\ i = 0
  /\ tokens = <<>>
  /\ pos = 0
  /\ body = <<>>
  /\ ctx = TransformContext(tools)
  /\ result = NoResult
  /\ kept = NoResult
  /\ arrays = [r \in REFS |-> <<>>]
  /\ cached = <<>>
  /\ host = [path |-> {}, runs |-> 0, op |-> "none", got |-> <<>>]

\* transpile(input, {availableTools}) or transpileWithMeta(input,
\* {availableTools}) is called: blank input returns at once, any other
\* input starts lex.
Call(f, input, availableTools) ==
  /\ pc = "idle"
  /\ api' = f
  /\ bash' = input
  /\ tools' = availableTools
  /\ ctx' = TransformContext(availableTools)
  /\ IF input = "" \/ isBlank(input)
     THEN /\ pc' = "done"
          /\ result' = IF f = "transpile" THEN StringResult("") ELSE EMPTY_RESULT
     ELSE /\ pc' = "lex"
          /\ result' = NoResult
  /\ host' = [host EXCEPT !.op = "options"]
  /\ UNCHANGED <<i, tokens, pos, body, kept, arrays, cached>>

\* the iteration of the main loop of lex ends as r
LexStepTo(r) ==
  /\ i' = r.i
  /\ tokens' = r.tokens

\* one iteration of the main loop of lex
LexStep ==
  /\ pc = "lex"
  /\ i < Len(bash)
  /\ LexStepTo(lexIteration(bash, i, tokens))
  /\ UNCHANGED <<pc, api, bash, tools, pos, body, ctx, result, kept, arrays, cached, host>>

\* the loop of lex ends: EOF is pushed, parse starts with parseScript
LexDone ==
  /\ pc = "lex"
  /\ i >= Len(bash)
  /\ tokens' = Append(tokens, Tok("EOF", ""))
  /\ pos' = skipNewlines(tokens', 0)
  /\ body' = <<>>
  /\ pc' = "parse"
  /\ UNCHANGED <<api, bash, tools, i, ctx, result, kept, arrays, cached, host>>

\* The statements a parseScript loop that consumes nothing may push before
\* the model stops following it (the loop itself never ends).
MaxBody == 2

\* the pass of the statement loop ends as r: its statement is pushed, or the
\* Error it throws reaches the catch block, which returns
ParsePassTo(r) ==
  IF r.st = "ok"
  THEN /\ r.pos # pos \/ Len(body) < MaxBody
       /\ pos' = r.pos
       /\ body' = Append(body, r.node)
       /\ UNCHANGED <<pc, result, arrays>>
  ELSE /\ r.st = "throw"
       /\ catchBlock(r.msg)
       /\ UNCHANGED <<pos, body>>

\* one pass of the statement loop of the top-level parseScript
ParsePass ==
  /\ pc = "parse"
  /\ parseScriptContinues(tokens, pos)
  /\ UNCHANGED <<api, bash, tools, i, tokens, ctx, kept, cached, host>>
  /\ ParsePassTo(parseNode("pass", tokens, pos))

\* the statement loop ends: parse returns the script; tokens left after it
\* are not looked at
ParseDone ==
  /\ pc = "parse"
  /\ ~parseScriptContinues(tokens, pos)
  /\ pc' = "translate"
  /\ UNCHANGED <<api, bash, tools, i, tokens, pos, body, ctx, result, kept, arrays, cached,
               host>>

\* translateScript ends as r: the call returns its string, or the error it
\* throws reaches the catch block, which returns
TranslateTo(r) ==
  /\ r.st # "hang"
  /\ ctx' = r.ctx
  /\ IF r.st = "ok" THEN returned(r.out) ELSE catchBlock(r.msg)

\* translateScript(ast, ctx)
Translate ==
  /\ pc = "translate"
  /\ TranslateTo(translateOne("script", ScriptNode(body), ctx))
  /\ UNCHANGED <<api, bash, tools, i, tokens, pos, body, kept, cached, host>>

\* the positions of a call that has returned
RETURNED == {"done", "failed"}

\* the locals of a call that has returned are gone
forgetCall ==
  /\ pc' = "idle"
  /\ api' = "transpile"
  /\ bash' = ""
  /\ tools' = ToolAvailability(FALSE, FALSE, FALSE, FALSE)
  /\ i' = 0
  /\ tokens' = <<>>
  /\ pos' = 0
  /\ body' = <<>>
  /\ ctx' = TransformContext(tools')
  /\ result' = NoResult

\* the store once nothing holds r any more: the arrays r alone names are
\* garbage; those of EMPTY_RESULT live as long as the module, those the
\* result `held` names as long as it
collected(r, held) ==
  [ref \in REFS |->
     IF /\ r.kind = "record"
        /\ ref \in {r.warnings, r.unsupported}
        /\ ref \notin {EMPTY_RESULT.warnings, EMPTY_RESULT.unsupported,
                       held.warnings, held.unsupported}
     THEN <<>> ELSE arrays[ref]]

\* the caller lets go of the result of the last call
Drop ==
  /\ pc \in RETURNED
  /\ forgetCall
  /\ arrays' = collected(result, kept)
  /\ UNCHANGED <<kept, cached, host>>

\* the caller keeps the result of the last call for later, in place of the
\* one it kept before
Keep ==
  /\ pc \in RETURNED
  /\ result.kind = "record"
  /\ kept' = result
  /\ forgetCall
  /\ arrays' = collected(kept, result)
  /\ UNCHANGED <<cached, host>>

\* The entries a caller pushes on an array of a result before the model
\* stops following it.
MaxPush == 1

\* the caller pushes an entry on the warnings or the unsupported array of
\* the result it kept
Mutate(field) ==
  /\ pc \in {"idle"} \cup RETURNED
  /\ kept.kind = "record"
  /\ Cardinality({k \in 1..Len(arrays[kept[field]]) : arrays[kept[field]][k] = "x"})
       < MaxPush
  /\ arrays' = [arrays EXCEPT ![kept[field]] = Append(@, "x")]
  /\ UNCHANGED <<pc, api, bash, tools, i, tokens, pos, body, ctx, result, kept, cached,
               host>>

\* detectTools() is called between two calls of transpile
DetectTools ==
  /\ pc \in {"idle"} \cup RETURNED
  /\ LET r == detectTools(cached, host.path)
     IN /\ cached' = r.cached
        /\ host' = [host EXCEPT !.op = "detectTools", !.got = <<r.out>>,
                                !.runs = IF r.probed THEN @ + 1 ELSE @]
  /\ UNCHANGED <<pc, api, bash, tools, i, tokens, pos, body, ctx, result, kept, arrays>>

\* resetToolCache() is called between two calls of transpile
ResetToolCache ==
  /\ pc \in {"idle"} \cup RETURNED
  /\ cached' = resetToolCache
  /\ host' = [host EXCEPT !.op = "resetToolCache", !.runs = 0]
  /\ UNCHANGED <<pc, api, bash, tools, i, tokens, pos, body, ctx, result, kept, arrays>>

\* transpile(input) or transpileWithMeta(input) is called with no
\* availableTools: blank input returns at once, any other input takes the
\* record of detectTools() and starts lex.
CallDetecting(f, input) ==
  /\ pc = "idle"
  /\ api' = f
  /\ bash' = input
  /\ IF input = "" \/ isBlank(input)
     THEN /\ pc' = "done"
          /\ result' = IF f = "transpile" THEN StringResult("") ELSE EMPTY_RESULT
          /\ host' = [host EXCEPT !.op = "defaults"]
          /\ UNCHANGED <<tools, ctx, cached>>
     ELSE LET r == detectTools(cached, host.path)
          IN /\ pc' = "lex"
             /\ result' = NoResult
             /\ tools' = r.out
             /\ ctx' = TransformContext(r.out)
             /\ cached' = r.cached
             /\ host' = [host EXCEPT !.op = "defaults",
                                     !.runs = IF r.probed THEN @ + 1 ELSE @]
  /\ UNCHANGED <<i, tokens, pos, body, kept, arrays>>

\* a command appears on the PATH of the host, or leaves it
Install(cmd) ==
  /\ host' = [host EXCEPT !.path = IF cmd \in @ THEN @ \ {cmd} ELSE @ \cup {cmd}]
  /\ UNCHANGED <<pc, api, bash, tools, i, tokens, pos, body, ctx, result, kept, arrays,
                 cached>>

(***************************************************************************)
(* Specifications                                                          *)
(***************************************************************************)

RECURSIVE StringsOver(_, _)
\* the strings of at most n characters of an alphabet
StringsOver(alphabet, n) ==
  IF n = 0 THEN {""}
  ELSE LET shorter == StringsOver(alphabet, n - 1)
       IN shorter \cup {str \o ch : str \in shorter, ch \in alphabet}

RECURSIVE PhrasesOver(_, _)
\* the inputs of at most n words of a lexicon, one space between words
PhrasesOver(lexicon, n) ==
  IF n = 0 THEN {}
  ELSE LET shorter == PhrasesOver(lexicon, n - 1)
       IN lexicon \cup shorter \cup {p \o " " \o w : p \in shorter, w \in lexicon}

APIS == {"transpile", "transpileWithMeta"}

NoTools == ToolAvailability(FALSE, FALSE, FALSE, FALSE)

\* Inputs by the character: a word character, the blanks, the newline, the
\* carriage return, the operators and the parentheses.
MaxLen == 3
Alphabet == {"a", " ", "\n", "\r", "&", "|", ";", "(", ")"}
CharInputs == StringsOver(Alphabet, MaxLen)

Next ==
  \/ \E f \in APIS, input \in CharInputs : Call(f, input, NoTools)
  \/ LexStep
  \/ LexDone
  \/ ParsePass
  \/ ParseDone
  \/ Translate
  \/ Drop

Spec == Init /\ [][Next]_vars

\* Inputs by the word, one space between words: a command that passes
\* through, a quoted name, assignments (one whose value cannot be
\* translated), a command with a translator, the parenthesis and the
\* operators of lists.
MaxWords == 3
Lexicon == {"a", "'b c'", "A=1", "A=$toString", "true", "(", "&&", "||", ";"}
WordInputs == PhrasesOver(Lexicon, MaxWords)

WordNext ==
  \/ \E f \in APIS, input \in WordInputs : Call(f, input, NoTools)
  \/ LexStep
  \/ LexDone
  \/ ParsePass
  \/ ParseDone
  \/ Translate
  \/ Drop

WordSpec == Init /\ [][WordNext]_vars

\* Inputs that fail, in parse or in translateScript, before and after a
\* translator has returned: the words are a command with a translator, a
\* separator, an assignment whose value cannot be translated and an open
\* parenthesis.
MaxFailureWords == 3
FailureLexicon == {"true", ";", "A=$toString", "("}
FailureInputs == PhrasesOver(FailureLexicon, MaxFailureWords)

FailureNext ==
  \/ \E f \in APIS, input \in FailureInputs : Call(f, input, NoTools)
  \/ LexStep
  \/ LexDone
  \/ ParsePass
  \/ ParseDone
  \/ Translate
  \/ Drop

FailureSpec == Init /\ [][FailureNext]_vars

\* Inputs that name the translators with a native branch, with at most
\* MaxArgs groups of arguments each (a pattern or a path, a recursive search,
\* a silent download), alone and placed after a pipe, in a chain, in a
\* subshell, in a command substitution, after sudo, and beside another such
\* translator; the tool records are all those of rg, fd and curl.
MaxArgs == 1
TOOL_COMMANDS == {"grep", "egrep", "fgrep", "find", "curl", "wget"}
ArgLexicon == {"x", "-r x", "-s u"}
ArgLists == {""} \cup {" " \o args : args \in PhrasesOver(ArgLexicon, MaxArgs)}
ToolCommands == {name \o args : name \in TOOL_COMMANDS, args \in ArgLists}
Placed(command) ==
  {command, "a | " \o command, "true && " \o command, "( " \o command \o " )",
   "a $(" \o command \o ")", "sudo " \o command, "find | " \o command,
   command \o " ; curl u"}
ToolInputs == UNION {Placed(command) : command \in ToolCommands \cup {"a", "true"}}
ToolRecords == {ToolAvailability(rg, fd, curl, FALSE) : rg, fd, curl \in BOOLEAN}

ToolNext ==
  \/ \E input \in ToolInputs, t \in ToolRecords : Call("transpileWithMeta", input, t)
  \/ LexStep
  \/ LexDone
  \/ ParsePass
  \/ ParseDone
  \/ Translate
  \/ Drop

ToolSpec == Init /\ [][ToolNext]_vars

\* A caller that keeps one result while it calls again, and pushes entries
\* on the arrays of the result it kept.
AliasInputs == {"", " ", "a", "true", "("}

AliasNext ==
  \/ \E f \in APIS, input \in AliasInputs : Call(f, input, NoTools)
  \/ LexStep
  \/ LexDone
  \/ ParsePass
  \/ ParseDone
  \/ Translate
  \/ Drop
  \/ Keep
  \/ \E field \in {"warnings", "unsupported"} : Mutate(field)

AliasSpec == Init /\ [][AliasNext]_vars

\* Inputs that refer to a variable: the names of the mapping table, the
\* positional parameters and names the table does not hold, among them names
\* that every JavaScript object inherits; each written $NAME and ${NAME},
\* as a whole argument and inside a double-quoted argument.
TABLE_NAMES == {"HOME", "USER", "SHELL", "TMPDIR", "HOSTNAME", "PWD", "OLDPWD", "RANDOM",
                "?", "$", "!", "#", "@", "0"}
POSITIONAL == {"1", "2", "3", "4", "5", "6", "7", "8", "9"}
OTHER_NAMES == {"A", "x_1", "LANG", "SECONDS", "toString", "constructor"}
VarNames == TABLE_NAMES \cup POSITIONAL \cup OTHER_NAMES
Reference(name, braced) == IF braced THEN "${" \o name \o "}" ELSE "$" \o name
References == {Reference(name, braced) : name \in VarNames, braced \in BOOLEAN}
VarInputs == {"a " \o r : r \in References} \cup {"a \"x" \o r \o "\"" : r \in References}

VarNext ==
  \/ \E f \in APIS, input \in VarInputs : Call(f, input, NoTools)
  \/ LexStep
  \/ LexDone
  \/ ParsePass
  \/ ParseDone
  \/ Translate
  \/ Drop

VarSpec == Init /\ [][VarNext]_vars

\* Inputs with a path argument: a command without a translator and cd, each
\* with one argument, and a command with an output redirect; the word is a
\* tilde or /tmp path, bare or in single or double quotes.
BarePaths == {"~", "~/x", "x~y", "/tmp", "/tmp/x"}
QuotedPaths == {"'" \o w \o "'" : w \in BarePaths} \cup {"\"" \o w \o "\"" : w \in BarePaths}
PathInputs == {c \o " " \o w : c \in {"a", "cd", "a >"}, w \in BarePaths \cup QuotedPaths}

PathNext ==
  \/ \E f \in APIS, input \in PathInputs : Call(f, input, NoTools)
  \/ LexStep
  \/ LexDone
  \/ ParsePass
  \/ ParseDone
  \/ Translate
  \/ Drop

PathSpec == Init /\ [][PathNext]_vars

\* Inputs with one redirect after a command: an operator with or without a
\* descriptor before it and a target, or a duplication N>&M. A here-string
\* takes no descriptor.
Prefixes == {"", "0", "1", "2", "3"}
Targets == {"f", "/dev/null", "/dev/stdout", "/dev/stderr"}
Redirections == {<<prefix, op, target>> : prefix \in Prefixes, op \in {">", ">>", "<"},
                                          target \in Targets}
                \cup {<<"", "<<<", target>> : target \in Targets}
Duplications == {<<prefix, m>> : prefix \in Prefixes, m \in {"1", "2"}}
RedirectInputs == {"a " \o r[1] \o r[2] \o " " \o r[3] : r \in Redirections}
                  \cup {"a " \o d[1] \o ">&" \o d[2] : d \in Duplications}

RedirectNext ==
  \/ \E f \in APIS, input \in RedirectInputs : Call(f, input, NoTools)
  \/ LexStep
  \/ LexDone
  \/ ParsePass
  \/ ParseDone
  \/ Translate
  \/ Drop

RedirectSpec == Init /\ [][RedirectNext]_vars

\* Inputs that call grep with no native tool: one flag word or none, the
\* pattern p and zero, one or two file operands, alone or after a pipe.
GrepFlagWords == {"", "-n", "-r", "-R", "-rn", "-c", "-l", "-o", "-q", "-i"}
GrepOperands == {<<>>, <<"f">>, <<"f", "g">>}
GrepInput(before, flags, files) ==
  before \o JoinWith(<<"grep">> \o (IF flags = "" THEN <<>> ELSE <<flags>>)
                     \o <<"p">> \o files, " ")
GrepCalls == {<<before, flags, files>> : before \in {"", "a | "}, flags \in GrepFlagWords,
                                         files \in GrepOperands}
GrepInputs == {GrepInput(g[1], g[2], g[3]) : g \in GrepCalls}

GrepNext ==
  \/ \E f \in APIS, input \in GrepInputs : Call(f, input, NoTools)
  \/ LexStep
  \/ LexDone
  \/ ParsePass
  \/ ParseDone
  \/ Translate
  \/ Drop

GrepSpec == Init /\ [][GrepNext]_vars

\* Inputs that call find with no native tool: a search path or none, then
\* an expression with or without an action.
FindPaths == {"", " .", " d"}
FindTests == {"", " -name x", " -type f", " -empty"}
FindActions == {"", " -delete", " -exec a {} +"}
FindCalls == {<<path, test, action>> : path \in FindPaths, test \in FindTests,
                                       action \in FindActions}
FindInputs == {"find" \o f[1] \o f[2] \o f[3] : f \in FindCalls}

FindNext ==
  \/ \E f \in APIS, input \in FindInputs : Call(f, input, NoTools)
  \/ LexStep
  \/ LexDone
  \/ ParsePass
  \/ ParseDone
  \/ Translate
  \/ Drop

FindSpec == Init /\ [][FindNext]_vars

\* calls of the text commands with no file operand, alone and after a pipe
PipeCalls == {"wc", "wc -l", "wc -w", "wc -c", "wc -m", "cat", "cat -n", "head",
              "head -5", "head -n 3", "tail", "tail -n 2", "tail -f", "sort", "sort -r",
              "sort -n", "sort -u", "uniq", "uniq -c", "uniq -d", "tee", "tee -a"}
PipeBefore == {"", "a | "}
PipeInputs == {before \o call : before \in PipeBefore, call \in PipeCalls}

PipeNext ==
  \/ \E f \in APIS, input \in PipeInputs : Call(f, input, NoTools)
  \/ LexStep
  \/ LexDone
  \/ ParsePass
  \/ ParseDone
  \/ Translate
  \/ Drop

PipeSpec == Init /\ [][PipeNext]_vars

\* sed calls: substitutions s<d>x<d>REPL<d>FLAGS in single quotes with each
\* delimiter, each back-reference and &, and the other expression forms
Delimiters == {"/", "|", "#"}
BackRefs == {"\\1", "\\2", "\\3", "\\4", "\\5", "\\6", "\\7", "\\8", "\\9"}
Replacements == BackRefs \cup {"&", "y", "", "\\1&", "a\\2b\\7", "[&]"}
SubFlags == {"", "g"}
Substitutions == Delimiters \X Replacements \X SubFlags
Substitution(sub) == "s" \o sub[1] \o "x" \o sub[1] \o sub[2] \o sub[1] \o sub[3]
SedBefore == {"sed ", "a | sed ", "sed -e 2d -e ", "sed -i.bak f "}
SedOthers == {"sed /x/d", "sed -n /x/p f", "sed -n 1,3p", "sed 2p", "sed -i 2d f",
              "sed -i .bak 2d f", "sed", "sed -e zz"}
SedInputs == {before \o "'" \o Substitution(sub) \o "'" :
                before \in SedBefore, sub \in Substitutions} \cup SedOthers

SedNext ==
  \/ \E f \in APIS, input \in SedInputs : Call(f, input, NoTools)
  \/ LexStep
  \/ LexDone
  \/ ParsePass
  \/ ParseDone
  \/ Translate
  \/ Drop

SedSpec == Init /\ [][SedNext]_vars

\* awk calls: programs of the recognized forms and programs that are none
\* of them, in single quotes, with and without a separator and a file
RecognizedPrograms == {"{print $1}", "{print $2}", "{ print $12 }", "{print $1, $2}",
                       "{print $2, $1}", "{print}", "{print $0}", "NR==3", "/x/",
                       "{print NF}"}
OtherPrograms == {"{print $1, $0}", "{print $1, 22}", "{print $1 \",\" $2}", "{print 5}",
                  "BEGIN{x=0}", "{print $1; print $2}", "/x/ || /y/", "/x/ {print $1}",
                  "$1 > 5", "{print $1+$2}", "{print NF, $1}", "NR==1 {print}",
                  "{print $0, $1}", "{print \"$1\"}"}
AwkBefore == {"awk ", "gawk -F: ", "a | awk "}
AwkAfter == {"", " f"}
AwkInput(before, program, after) == before \o "'" \o program \o "'" \o after
AwkInputs == {AwkInput(before, program, after) :
                before \in AwkBefore, program \in RecognizedPrograms \cup OtherPrograms,
                after \in AwkAfter} \cup {"awk", "awk -F:"}

AwkNext ==
  \/ \E f \in APIS, input \in AwkInputs : Call(f, input, NoTools)
  \/ LexStep
  \/ LexDone
  \/ ParsePass
  \/ ParseDone
  \/ Translate
  \/ Drop

AwkSpec == Init /\ [][AwkNext]_vars

\* Calls of detectTools, resetToolCache and of transpile with and without
\* options.availableTools, on a host whose PATH changes.
CacheInputs == {"", "a", "find", "grep x"}
CacheRecords == {NoTools, ToolAvailability(TRUE, TRUE, FALSE, FALSE)}

CacheNext ==
  \/ \E f \in APIS, input \in CacheInputs, t \in CacheRecords : Call(f, input, t)
  \/ \E f \in APIS, input \in CacheInputs : CallDetecting(f, input)
  \/ DetectTools
  \/ ResetToolCache
  \/ \E cmd \in Commands : Install(cmd)
  \/ LexStep
  \/ LexDone
  \/ ParsePass
  \/ ParseDone
  \/ Translate
  \/ Drop

CacheSpec == Init /\ [][CacheNext]_vars

\* Commands that warn, at each place of a script: two sed calls with an
\* expression sed cannot parse, told apart by the expression, in a
\* pipeline, a chain, a subshell, a command substitution in an argument or
\* in a redirect target, and behind sudo.
Warner(tag) == "sed -e " \o tag
WarnerPairs == {<<Warner("u"), Warner("v")>>, <<Warner("v"), Warner("u")>>}
Places(l, r) ==
  {l \o " | " \o r, l \o " && " \o r, l \o " || " \o r, l \o " ; " \o r,
   "(" \o l \o "; " \o r \o ")", "(" \o l \o ") | " \o r,
   "a $(" \o l \o ") $(" \o r \o ")", "a \"$(" \o l \o ")\" $(" \o r \o ")",
   "cat $(" \o l \o ") | " \o r, l \o " > $(" \o r \o ")",
   "a > $(" \o l \o ") | " \o r, "a $(b $(" \o l \o ")) | " \o r,
   "sudo " \o l, "sudo a $(" \o l \o ")", "sudo " \o l \o " | " \o r,
   l \o " | sudo " \o r}
WarnInputs == UNION {Places(w[1], w[2]) : w \in WarnerPairs}

WarnNext ==
  \/ \E f \in APIS, input \in WarnInputs : Call(f, input, NoTools)
  \/ LexStep
  \/ LexDone
  \/ ParsePass
  \/ ParseDone
  \/ Translate
  \/ Drop

WarnSpec == Init /\ [][WarnNext]_vars

\* Command substitutions whose body fails in translation, at once or after
\* a translator of the body has warned or fallen back, and bodies that do
\* not fail; in an argument, between double quotes, in a redirect target
\* and after a command that warns.
FailingBodies == {"b $toString", "sed -e u; b $toString", "find; b ${constructor}",
                  "sed -e u | b \"x$toString\""}
OtherBodies == {"b", "sed -e u", "b $(c $toString)"}
Around == {<<"a $(", ")">>, <<"a \"$(", ")\"">>, <<"a > $(", ")">>,
           <<"sed -e v | a $(", ") c">>}
SubstInputs == {a[1] \o inner \o a[2] : a \in Around, inner \in FailingBodies \cup OtherBodies}

SubstNext ==
  \/ \E f \in APIS, input \in SubstInputs : Call(f, input, NoTools)
  \/ LexStep
  \/ LexDone
  \/ ParsePass
  \/ ParseDone
  \/ Translate
  \/ Drop

SubstSpec == Init /\ [][SubstNext]_vars

\* Commands with a here-string: a command that passes through and commands
\* with a translator, a word of each quoting, alone and before a pipe.
HereCommands == {"a", "a b", "cat", "grep x", "sort", "sudo a"}
HereWords == {<<"w", "w">>, <<"\"hello\"", "\"hello\"">>, <<"'x y'", "'x y'">>,
              <<"$v", "$env:v">>}
HereAfter == {"", " | c"}
HereInput(command, word, after) == command \o " <<< " \o word[1] \o after
HereInputs == {HereInput(command, word, after) :
                 command \in HereCommands, word \in HereWords, after \in HereAfter}

HereNext ==
  \/ \E f \in APIS, input \in HereInputs : Call(f, input, NoTools)
  \/ LexStep
  \/ LexDone
  \/ ParsePass
  \/ ParseDone
  \/ Translate
  \/ Drop

HereSpec == Init /\ [][HereNext]_vars

\* Words with a single-quoted segment that holds a $ form, alone and
\* joined without a blank to an unquoted, a double-quoted or a
\* dollar-single-quoted segment, on either side.
DollarForms == {"$x", "${x}", "$(b)", "$1"}
Neighbours == {"", "p", "\"q\"", "$'t'"}
QuotedWord(before, form, after) == before \o "'" \o form \o "'" \o after
QuotedWords == {<<before, form, after>> :
                  before \in Neighbours, form \in DollarForms, after \in Neighbours}
QuoteInputs == {"a " \o QuotedWord(w[1], w[2], w[3]) : w \in QuotedWords}

QuoteNext ==
  \/ \E f \in APIS, input \in QuoteInputs : Call(f, input, NoTools)
  \/ LexStep
  \/ LexDone
  \/ ParsePass
  \/ ParseDone
  \/ Translate
  \/ Drop

QuoteSpec == Init /\ [][QuoteNext]_vars

\* Words that hold a dollar sign behind a backslash, unquoted or between
\* double quotes, alone or with text before and after it.
EscapedForms == {"\\$x", "\\${x}", "\\$1", "\\$?"}
QuotedEscapedForms == EscapedForms \cup {"\\$(b)"}
EscBefore == {"", "p"}
EscAfter == {"", "q", " r"}
EscInputs ==
  {"a " \o before \o form \o after :
     before \in EscBefore, form \in EscapedForms, after \in EscAfter}
  \cup {"a \"" \o before \o form \o "\"" \o after :
          before \in EscBefore, form \in QuotedEscapedForms, after \in EscAfter}

EscNext ==
  \/ \E f \in APIS, input \in EscInputs : Call(f, input, NoTools)
  \/ LexStep
  \/ LexDone
  \/ ParsePass
  \/ ParseDone
  \/ Translate
  \/ Drop

EscSpec == Init /\ [][EscNext]_vars

\* Commands with a heredoc whose operator line goes on after the delimiter:
\* a redirect, a pipeline, an argument, a chain; and the same tokens written
\* before the operator.
DocOperators == {"<<E", "<<-E", "<<'E'", "<< \"E\""}
DocRest == {" > k", " | k", " k", " && k", "; k", " 2>> k"}
DocBodies == {"x", "x\n\ty", "$x"}
DocInput(before, operator, after, text) ==
  "a" \o before \o " " \o operator \o after \o "\n" \o text \o "\nE"
DocInputs ==
  {DocInput(before, operator, after, text) :
     before \in {""} \cup (DocRest \ {" | k", " && k", "; k"}),
     operator \in DocOperators, after \in {""} \cup DocRest, text \in DocBodies}

DocNext ==
  \/ \E f \in APIS, input \in DocInputs : Call(f, input, NoTools)
  \/ LexStep
  \/ LexDone
  \/ ParsePass
  \/ ParseDone
  \/ Translate
  \/ Drop

DocSpec == Init /\ [][DocNext]_vars

\* Words that are one command substitution whose body holds parentheses,
\* some of them between single or double quotes, with and without text
\* after it.
ScanBodies == {"b", "b (c)", "b \")\"", "b '('", "b \"(\"", "b ')'", "b \"x)y\" c",
               "(b) '((' c", "b $(c ')')"}
ScanAfter == {"", " d", "e"}
ScanInput(inner, after) == "a $(" \o inner \o ")" \o after
ScanInputs == {ScanInput(inner, after) : inner \in ScanBodies, after \in ScanAfter}

ScanNext ==
  \/ \E f \in APIS, input \in ScanInputs : Call(f, input, NoTools)
  \/ LexStep
  \/ LexDone
  \/ ParsePass
  \/ ParseDone
  \/ Translate
  \/ Drop

ScanSpec == Init /\ [][ScanNext]_vars

(***************************************************************************)
(* Claims                                                                  *)
(***************************************************************************)

\* the call is in progress
InCall == pc \in {"lex", "parse", "translate"}

\* C1: every call returns, a string from transpile and a record from
\* transpileWithMeta, and raises nothing.  A call returns when each of its
\* steps brings it nearer to the return: the main loop of lex moves on in
\* the input or ends, the statement loop of parseScript moves on in the
\* tokens, ends or throws into the catch block, and translateScript returns
\* or throws into the catch block.
C1_Original ==
  /\ pc = "lex" => i >= Len(bash) \/ lexIteration(bash, i, tokens).i > i
  /\ pc = "parse" =>
       \/ ~parseScriptContinues(tokens, pos)
       \/ parseNode("pass", tokens, pos).st = "throw"
       \/ parseNode("pass", tokens, pos).pos > pos
  /\ pc = "translate" => translateOne("script", ScriptNode(body), ctx).st # "hang"
  /\ pc \in RETURNED =>
       result.kind = IF api = "transpile" THEN "string" ELSE "record"

\* C2: each iteration of the main loop of lex consumes at least one
\* character of the input, whatever character it stands at.
C2_Original ==
  (pc = "lex" /\ i < Len(bash)) =>
    LET next == lexIteration(bash, i, tokens)
    IN next.i > i /\ next.i <= Len(bash)

\* C3: each pass of the statement loop of parseScript consumes at least one
\* token, whatever kind the next token is, or ends parse by an error.
C3_Original ==
  (pc = "parse" /\ parseScriptContinues(tokens, pos)) =>
    LET pass == parseNode("pass", tokens, pos)
    IN pass.st = "throw" \/ (pass.st = "ok" /\ pass.pos > pos)

\* C4: the text a failed call returns is two lines and no more, the line
\* `# TRANSPILE ERROR: <msg>` and the line `# Original: <bash>`, each of
\* which begins with `#`.
C4_Original ==
  pc = "failed" =>
    LET lines == SplitOn(result.powershell, "\n")
    IN /\ Len(lines) = 2
       /\ StartsWith(lines[1], "# TRANSPILE ERROR: ")
       /\ lines[2] = "# Original: " \o bash

\* the <msg> of the text a failed call returned
FailureMessage ==
  Slice(result.powershell, Len("# TRANSPILE ERROR: "),
        Len(result.powershell) - Len("\n# Original: " \o bash))

\* C5: the record a failed transpileWithMeta call returns has the one
\* warning `Transpilation failed: <msg>`, the input as its one unsupported
\* entry and usedFallbacks false, whatever the context recorded before the
\* failure.
C5_FailureRecord ==
  (pc = "failed" /\ api = "transpileWithMeta") =>
    /\ result.powershell = errorComment(FailureMessage, bash)
    /\ arrays[result.warnings] = <<"Transpilation failed: " \o FailureMessage>>
    /\ arrays[result.unsupported] = <<bash>>
    /\ result.usedFallbacks = FALSE

\* a transpileWithMeta call has failed on a parse error
C5_ParseError ==
  /\ pc = "failed"
  /\ api = "transpileWithMeta"
  /\ ctx = TransformContext(tools)
  /\ StartsWith(FailureMessage, "Expected RightParen but got ")

\* C6: a push on an array of one call's result changes no other call's
\* result: while the caller holds the result of the last call, the arrays
\* that result names stay as they are.
C6_Original ==
  [][(result.kind = "record" /\ result' = result) =>
       /\ arrays'[result.warnings] = arrays[result.warnings]
       /\ arrays'[result.unsupported] = arrays[result.unsupported]]_vars

\* C7: after a transpileWithMeta call that did not fail, usedFallbacks is
\* true exactly when one of the translators invoked during the call, at
\* whatever place of the input, took a branch that is not native.
C7_UsedFallbacks ==
  (pc = "done" /\ api = "transpileWithMeta") =>
    (result.usedFallbacks <=> "cmdlet" \in ctx.taken)

\* a call has returned after a translator took its native branch and, later,
\* another one its cmdlet branch; and after the reverse
C7_BothBranches ==
  /\ pc = "done"
  /\ api = "transpileWithMeta"
  /\ bash = "find | grep x"
  /\ tools.rg /\ ~tools.fd
  /\ ctx.taken = {"native", "cmdlet"}
  /\ result.usedFallbacks

\* the first word of a text
FirstWord(str) == Slice(str, 0, IndexOf(str \o " ", " "))

\* the flag of the tool record that decides for the translator of a name
HasTool(name, t) ==
  CASE name \in {"grep", "egrep", "fgrep"} -> t.rg
    [] name = "find" -> t.fd
    [] OTHER -> t.curl

\* the native command of the translator of a name, and the cmdlets of its
\* PowerShell form
NativeTool(name) ==
  CASE name \in {"grep", "egrep", "fgrep"} -> "rg"
    [] name = "find" -> "fd"
    [] OTHER -> "curl.exe"

CmdletsOf(name) ==
  CASE name \in {"grep", "egrep", "fgrep"} -> {"Select-String"}
    [] name = "find" -> {"Get-ChildItem"}
    [] name = "wget" -> {"Invoke-WebRequest"}
    [] OTHER -> {"Invoke-WebRequest", "Invoke-RestMethod"}

\* C8: for grep, egrep, fgrep, find, curl and wget the output is the native
\* command (rg, fd, curl.exe) with usedFallback false when the flag of the
\* tool is true, and the cmdlet form with usedFallback true when it is false.
C8_NativeIffTool ==
  (pc = "done" /\ bash \in ToolCommands) =>
    LET name == FirstWord(bash)
        emitted == FirstWord(result.powershell)
    IN IF HasTool(name, tools)
       THEN emitted = NativeTool(name) /\ ~result.usedFallbacks
       ELSE /\ emitted \notin {"rg", "fd", "curl.exe"}
            /\ \E cmdlet \in CmdletsOf(name) : Contains(result.powershell, cmdlet)
            /\ result.usedFallbacks

\* find has returned the fd command under a tool record that has fd and
\* neither rg nor curl
C8_NativeFind ==
  /\ pc = "done"
  /\ bash = "find x"
  /\ tools = ToolAvailability(FALSE, TRUE, FALSE, FALSE)
  /\ FirstWord(result.powershell) = "fd"
  /\ ~result.usedFallbacks

\* the input is one simple command with a name, no assignment before it and
\* no translator registered for it
PassesThrough ==
  /\ Len(body) = 1
  /\ body[1].type = "Pipeline"
  /\ ~body[1].negated
  /\ Len(body[1].commands) = 1
  /\ body[1].commands[1].type = "SimpleCommand"
  /\ body[1].commands[1].name # null
  /\ Len(body[1].commands[1].assignments) = 0
  /\ ~hasTranslator(wordToString(body[1].commands[1].name))

\* C9: the output of a command that passes through is the translation of
\* its name word, then of each argument in order, then its redirects, with
\* one space between them.
C9_Original ==
  (pc = "done" /\ PassesThrough) =>
    LET cmd == body[1].commands[1]
        words == translateEach("word", <<cmd.name>> \o cmd.args, TransformContext(tools))
        redirects == translateEach("redirect", cmd.redirects, TransformContext(tools))
    IN result.powershell = JoinWith(words.out \o redirects.out, " ")

\* the lowering of a statement that stands alone
Lowered(statement) ==
  translateOne("script", parse(lex(statement).tokens).node, TransformContext(tools)).out

\* statements of one word
Statements == {"a", "'b c'", "A=1", "true"}

\* C10: `L && R` lowers to `<L>; if ($?) { <R> }`, `L || R` to
\* `<L>; if (-not $?) { <R> }` and `L ; R` to `<L>; <R>`.
C10_Original ==
  pc = "done" =>
    \A L \in Statements, R \in Statements :
      /\ bash = L \o " && " \o R =>
           result.powershell = Lowered(L) \o "; if ($?) { " \o Lowered(R) \o " }"
      /\ bash = L \o " || " \o R =>
           result.powershell = Lowered(L) \o "; if (-not $?) { " \o Lowered(R) \o " }"
      /\ bash = L \o " ; " \o R =>
           result.powershell = Lowered(L) \o "; " \o Lowered(R)

\* pipelines of one command, each followed by a single `&` in the inputs
\* that C11 is about
Pipelines == {"a", "aa"}

\* C11: a pipeline followed by a single `&` is lowered to
\* `Start-Job -ScriptBlock { <pipeline> }`, and no other input gets a
\* Start-Job wrapper.
C11_Original ==
  /\ (pc = "parse" /\ body = <<>>) =>
       \A P \in Pipelines :
         bash \in {P \o "&", P \o " &"} =>
           LET ast == parse(tokens)
           IN /\ ast.st = "ok"
              /\ translateOne("script", ast.node, ctx).out
                   = "Start-Job -ScriptBlock { " \o Lowered(P) \o " }"
  /\ pc = "done" =>
       (Contains(result.powershell, "Start-Job") =>
          \E P \in Pipelines : bash \in {P \o "&", P \o " &"})

\* the PowerShell expression the mapping table lists for a name
Mapping(name, braced) ==
  CASE name = "HOME" -> "$env:USERPROFILE"
    [] name = "USER" -> "$env:USERNAME"
    [] name = "SHELL" -> "$env:ComSpec"
    [] name = "TMPDIR" -> "$env:TEMP"
    [] name = "HOSTNAME" -> "$env:COMPUTERNAME"
    [] name = "PWD" -> "$PWD"
    [] name = "OLDPWD" -> "$OLDPWD"
    [] name = "RANDOM" -> "(Get-Random)"
    [] name = "?" -> "$LASTEXITCODE"
    [] name \in {"$", "!"} -> "$PID"
    [] name = "#" -> "$args.Count"
    [] name = "@" -> "$args"
    [] name = "0" -> "$MyInvocation.MyCommand.Name"
    [] name \in POSITIONAL -> "$args[" \o NatStr(DigitVal(name) - 1) \o "]"
    [] OTHER -> IF braced THEN "${env:" \o name \o "}" ELSE "$env:" \o name

\* C12: every variable reference is mapped by the table, written $NAME or
\* ${NAME}, as a whole word or inside a double-quoted word; a name the table
\* does not list maps to $env:NAME, ${env:NAME} when braced.
C12_Original ==
  pc \in RETURNED =>
    \A name \in VarNames, braced \in BOOLEAN :
      /\ bash = "a " \o Reference(name, braced) =>
           /\ pc = "done"
           /\ result.powershell = "a " \o Mapping(name, braced)
      /\ bash = "a \"x" \o Reference(name, braced) \o "\"" =>
           /\ pc = "done"
           /\ result.powershell = "a \"x" \o Mapping(name, braced) \o "\""

\* what the command word of an input of PathInputs is emitted as
Emitted(c) == IF c = "cd" THEN "Set-Location" ELSE c

\* C13: an unquoted argument `~` is emitted as $env:USERPROFILE and an
\* unquoted argument `~/rest` as $env:USERPROFILE\rest, for every command
\* whose arguments are word-translated; a tilde inside a word stays.
C13_Original ==
  pc \in RETURNED =>
    \A c \in {"a", "cd"} :
      /\ bash = c \o " ~" => result.powershell = Emitted(c) \o " $env:USERPROFILE"
      /\ bash = c \o " ~/x" => result.powershell = Emitted(c) \o " $env:USERPROFILE\\x"
      /\ bash = c \o " x~y" => /\ Contains(result.powershell, "x~y")
                               /\ ~Contains(result.powershell, "$env:USERPROFILE")

\* C14: a word written in single or double quotes is never rewritten to
\* $env:TEMP... or $env:USERPROFILE..., as an argument, as the argument of
\* cd or as the target of a redirect.
C14_Original ==
  pc \in RETURNED =>
    \A c \in {"a", "cd", "a >"}, w \in QuotedPaths :
      bash = c \o " " \o w =>
        /\ ~Contains(result.powershell, "$env:TEMP")
        /\ ~Contains(result.powershell, "$env:USERPROFILE")

\* the descriptor of a redirect written with this prefix and operator
DescriptorOf(prefix, op) ==
  IF prefix # "" THEN DigitVal(prefix) ELSE IF op = "<" THEN 0 ELSE 1

\* [FD]: the descriptor, written when it is greater than 1
FdText(prefix, op) == IF DescriptorOf(prefix, op) > 1 THEN prefix ELSE ""

\* what a target other than /dev/null is emitted as
TargetText(target) == IF target \in {"/dev/stdout", "/dev/stderr"} THEN "CON" ELSE target

\* C15: a duplication N>&M is emitted verbatim; a /dev/null target gives
\* [FD]>$null for > and [FD]>>$null for >>; any other target gives
\* `[FD]op <target>` for every operator, with /dev/stdout and /dev/stderr
\* as CON.
C15_Original ==
  pc \in RETURNED =>
    /\ \A d \in Duplications :
         (d[1] # "" /\ bash = "a " \o d[1] \o ">&" \o d[2]) =>
           result.powershell = "a " \o d[1] \o ">&" \o d[2]
    /\ \A r \in Redirections :
         bash = "a " \o r[1] \o r[2] \o " " \o r[3] =>
           IF r[3] = "/dev/null"
           THEN r[2] \in {">", ">>"} =>
                  result.powershell = "a " \o FdText(r[1], r[2]) \o r[2] \o "$null"
           ELSE result.powershell
                  = "a " \o FdText(r[1], r[2]) \o r[2] \o " " \o TargetText(r[3])

\* C15 as amended: the descriptor is written before > and >> only; < is
\* emitted as `< <target>` whatever its descriptor, a here-string as
\* `(<target>) |`, and a /dev/null target of < or <<< as nothing; >&M
\* without a descriptor is emitted as 1>&M.
C15_Lowering ==
  pc \in RETURNED =>
    /\ \A d \in Duplications :
         bash = "a " \o d[1] \o ">&" \o d[2] =>
           result.powershell = "a " \o (IF d[1] = "" THEN "1" ELSE d[1]) \o ">&" \o d[2]
    /\ \A r \in Redirections :
         bash = "a " \o r[1] \o r[2] \o " " \o r[3] =>
           result.powershell =
             CASE r[3] = "/dev/null" /\ r[2] \in {">", ">>"} ->
                    "a " \o FdText(r[1], r[2]) \o r[2] \o "$null"
               [] r[3] = "/dev/null" /\ r[2] \in {"<", "<<<"} -> "a"
               [] r[3] # "/dev/null" /\ r[2] \in {">", ">>"} ->
                    "a " \o FdText(r[1], r[2]) \o r[2] \o " " \o TargetText(r[3])
               [] r[3] # "/dev/null" /\ r[2] = "<" -> "a < " \o TargetText(r[3])
               [] OTHER -> "a (" \o TargetText(r[3]) \o ") |"

\* an input redirect with a descriptor has been lowered
C15_InputDescriptor ==
  /\ pc = "done"
  /\ bash = "a 3< f"
  /\ result.powershell = "a < f"

\* the row a formatter writes for each match: its fields joined by colons
Row(fields) ==
  IF fields = <<"Line">> THEN "| ForEach-Object { $_.Line }"
  ELSE "| ForEach-Object { \""
       \o JoinWith([k \in 1..Len(fields) |-> "$($_." \o fields[k] \o ")"], ":") \o "\" }"

\* a PowerShell pipeline text that writes nothing: its output is piped to
\* Out-Null, redirected to $null, assigned to $null or cast to void
Discards(text) ==
  \/ EndsWith(text, "| Out-Null")
  \/ EndsWith(text, ">$null")
  \/ EndsWith(text, "> $null")
  \/ StartsWith(text, "$null = ")
  \/ StartsWith(text, "[void]")

\* the formatter the table gives for a flag word and a number of operands
Formatter(flags, n) ==
  CASE flags = "-l" -> "| Select-Object -Unique -ExpandProperty Path"
    [] flags = "-o" -> "| ForEach-Object { $_.Matches.Value }"
    [] flags = "-c" -> IF n > 1
                       THEN "| Group-Object Path | " \o
                            "ForEach-Object { \"$($_.Name):$($_.Count)\" }"
                       ELSE "| Measure-Object | ForEach-Object { $_.Count }"
    [] flags = "-rn" -> Row(<<"Path", "LineNumber", "Line">>)
    [] flags \in {"-r", "-R"} -> Row(<<"Path", "Line">>)
    [] flags = "-n" -> IF n > 1 THEN Row(<<"Path", "LineNumber", "Line">>)
                       ELSE Row(<<"LineNumber", "Line">>)
    [] OTHER -> IF n > 1 THEN Row(<<"Path", "Line">>) ELSE Row(<<"Line">>)

\* C16: in the Select-String fallback the last stage is the formatter the
\* table gives for the flags and the number of file operands, and -q gives
\* no output. (-n without a file operand is in no row of the table.)
C16_Original ==
  pc = "done" =>
    \A g \in GrepCalls :
      bash = GrepInput(g[1], g[2], g[3]) =>
        IF g[2] = "-q" THEN Discards(result.powershell)
        ELSE (g[2] = "-n" => g[3] # <<>>) =>
               EndsWith(result.powershell, " " \o Formatter(g[2], Len(g[3])))

\* C17: the fallback emits a Get-ChildItem stage exactly when -r or -R is
\* present; with file operands and no -r it emits Select-String with -Path
\* and the files; with neither it emits a Select-String stage with no -Path.
C17_GetChildItem ==
  pc = "done" =>
    \A g \in GrepCalls :
      bash = GrepInput(g[1], g[2], g[3]) =>
        LET recursive == g[2] \in {"-r", "-R", "-rn"}
            stage == SliceFrom(result.powershell, Len(g[1]))
        IN /\ Contains(result.powershell, "Get-ChildItem") <=> recursive
           /\ (~recursive /\ g[3] # <<>>) =>
                /\ StartsWith(stage, "Select-String ")
                /\ Contains(stage, " -Path " \o JoinWith(psQuoteAll(g[3]), ",") \o " ")
           /\ (~recursive /\ g[3] = <<>>) =>
                /\ StartsWith(stage, "Select-String ")
                /\ ~Contains(stage, "-Path")

\* a grep with file operands and a grep after a pipe have both been lowered
\* without -r
C17_Piped ==
  /\ pc = "done"
  /\ bash = "a | grep -i p"
  /\ result.powershell = "a | Select-String -Pattern 'p' | ForEach-Object { $_.Line }"

\* C18: the find fallback ends with `| Select-Object -ExpandProperty
\* FullName` when neither -delete nor -exec is present, and never holds that
\* stage when one is: the Remove-Item or ForEach-Object stage is the tail.
C18_Original ==
  pc = "done" =>
    \A f \in FindCalls :
      bash = "find" \o f[1] \o f[2] \o f[3] =>
        CASE f[3] = "" ->
               EndsWith(result.powershell, " | Select-Object -ExpandProperty FullName")
          [] f[3] = " -delete" ->
               /\ ~Contains(result.powershell, "Select-Object -ExpandProperty FullName")
               /\ EndsWith(result.powershell, " | Remove-Item -Force")
          [] OTHER ->
               /\ ~Contains(result.powershell, "Select-Object -ExpandProperty FullName")
               /\ EndsWith(result.powershell, " | ForEach-Object { a $_.FullName }")

\* the text emitted for the last command of "a | call" or of "call"
Segment(text) == IF StartsWith(text, "a | ") THEN SliceFrom(text, 4) ELSE text

\* (...).Prop: a parenthesised expression followed by a property access
ParenProperty(text) == StartsWith(text, "(") /\ Contains(text, ").")

\* C19: cat, head, tail, wc, sort, uniq and tee called with no file operand
\* emit a pure pipe segment: the text holds no Get-Content and is not a
\* parenthesised expression (...).Prop; wc -l gives
\* Measure-Object -Line | ForEach-Object { $_.Lines }.
C19_Original ==
  (pc = "done" /\ bash \in PipeInputs) =>
    /\ ~Contains(Segment(result.powershell), "Get-Content")
    /\ ~ParenProperty(Segment(result.powershell))
    /\ (bash = "a | wc -l" =>
          result.powershell = "a | Measure-Object -Line | ForEach-Object { $_.Lines }")

RECURSIVE Referenced(_, _)
\* REPL with \N written $N for N in n..9
Referenced(replacement, n) ==
  IF n > 9 THEN replacement
  ELSE Referenced(ReplaceAll(replacement, "\\" \o DigitStr(n), "$" \o DigitStr(n)), n + 1)

\* REPL as the claim has it emitted: \N as $N for N in 1..9, & as $0
Replacing(replacement) == ReplaceAll(Referenced(replacement, 1), "&", "$0")

\* C20: in a substitution s/PAT/REPL/FLAGS with the delimiter /, | or #,
\* every back-reference \N, N in 1..9, of REPL is emitted as $N and every &
\* as $0 in the replacement string of -replace.
C20_Original ==
  pc = "done" =>
    \A before \in SedBefore, sub \in Substitutions :
      bash = before \o "'" \o Substitution(sub) \o "'" =>
        Contains(result.powershell,
                 "{ $_ -replace 'x','" \o Replacing(sub[2]) \o "' }")

\* C21: for an awk program that is none of the recognized forms the
\* translator emits a commented placeholder and appends a warning; it never
\* emits a pipeline that leaves out a part of the program.
C21_Original ==
  pc = "done" =>
    \A before \in AwkBefore, program \in OtherPrograms, after \in AwkAfter :
      bash = AwkInput(before, program, after) =>
        /\ Contains(result.powershell, "# awk '" \o program \o "'")
        /\ ~Contains(result.powershell, "-Object")
        /\ api = "transpileWithMeta" => Len(arrays[result.warnings]) = 1

\* the record a probe of the host gives now
Found == [rg |-> "rg" \in host.path, fd |-> "fd" \in host.path, curl |-> FALSE,
          jq |-> FALSE]

\* C22: in any sequence of detectTools, resetToolCache and transpile calls,
\* the probe runs at most once between two resetToolCache calls and every
\* later detectTools returns the cached record; resetToolCache empties the
\* cache, so that the first detectTools after it probes again and caches
\* what the host has then; nothing but resetToolCache changes a filled
\* cache; and a transpile call given options.availableTools neither runs the
\* probe nor changes the cache.
C22_ProbeOnce ==
  /\ [](host.runs <= 1)
  /\ [](host.op = "detectTools" => (cached # <<>> /\ host.got = cached))
  /\ [](host.op = "resetToolCache" => (cached = <<>> /\ host.runs = 0))
  /\ [][(cached = <<>> /\ host'.op = "detectTools") =>
          (host'.runs = host.runs + 1 /\ cached' = <<Found>>)]_vars
  /\ [][(cached # <<>> /\ cached' # cached) =>
          (cached' = <<>> /\ host'.op = "resetToolCache")]_vars
  /\ [][(pc = "idle" /\ pc' # "idle" /\ host'.op = "options") =>
          (cached' = cached /\ host'.runs = host.runs /\ tools' \in CacheRecords)]_vars

\* a transpile call without options and a detectTools call after it have
\* both got the record of one probe, which the host no longer matches
C22_OneProbe ==
  /\ pc = "done"
  /\ bash = "find"
  /\ host.op = "detectTools"
  /\ host.runs = 1
  /\ tools.fd /\ ~tools.rg
  /\ host.got = <<tools>>
  /\ host.path = {"rg"}

RECURSIVE SourceOrder(_, _)
\* the warnings of the commands of text from k on, in the order in which
\* the commands stand in it
SourceOrder(text, k) ==
  IF k >= Len(text) THEN <<>>
  ELSE IF Slice(text, k, k + 7) = "sed -e "
  THEN <<"sed: could not parse expression: " \o Ch(text, k + 7)>>
       \o SourceOrder(text, k + 8)
  ELSE IF Slice(text, k, k + 5) = "sudo "
  THEN <<"sudo: stripped (not applicable on Windows)">> \o SourceOrder(text, k + 5)
  ELSE SourceOrder(text, k + 1)

\* C23: result.warnings holds each warning a translator produced exactly
\* once, in the left-to-right source order of the commands that produced
\* them, across pipelines, chains, subshells, command substitutions in
\* arguments and redirect targets, and commands dispatched by sudo.
C23_Original ==
  (pc = "done" /\ api = "transpileWithMeta" /\ bash \in WarnInputs) =>
    arrays[result.warnings] = SourceOrder(bash, 0)

\* C24: when the translation of the body of a $(...) fails, the call still
\* returns a translation: the word is the raw $(command) text, exactly one
\* warning is appended for it, and nothing else the failed translation did
\* (warnings it pushed, usedFallbacks it set) is left in the result.
C24_Original ==
  pc \in RETURNED =>
    \A a \in Around, inner \in FailingBodies :
      bash = a[1] \o inner \o a[2] =>
        /\ pc = "done"
        /\ Contains(result.powershell, "$(" \o inner \o ")")
        /\ api = "transpileWithMeta" =>
             /\ arrays[result.warnings]
                  = SourceOrder(a[1], 0)
                    \o <<"Could not parse command substitution: $(" \o inner \o ")">>
             /\ result.usedFallbacks = Contains(a[1], "sed")

\* C25: for `cmd <<< WORD` the lowered text `(<WORD>) |` stands before the
\* translated command, which receives the pipe; it never stands after the
\* command.
C25_Original ==
  pc = "done" =>
    \A command \in HereCommands, word \in HereWords, after \in HereAfter :
      bash = HereInput(command, word, after) =>
        /\ StartsWith(result.powershell, "(" \o word[2] \o ") | ")
        /\ ~Contains(SliceFrom(result.powershell, 1), "(" \o word[2] \o ") |")

\* the parts of the words of the first command of the script parsed
ArgumentParts ==
  UNION {{word.parts[k] : k \in 1..Len(word.parts)} :
           word \in {body[1].commands[1].args[k] : k \in 1..Len(body[1].commands[1].args)}}

\* C26: the text of a single-quoted segment is emitted literally: a $NAME,
\* ${NAME} or $(...) written between single quotes never becomes a Variable
\* or a CommandSubstitution part, also when the segment is joined without a
\* blank to unquoted or double-quoted segments of the same word.
C26_Original ==
  (pc = "done" /\ bash \in QuoteInputs) =>
    /\ \A part \in ArgumentParts : part.type = "Literal"
    /\ ~Contains(result.powershell, "$env:")
    /\ ~Contains(result.powershell, "$args")

\* the command texts of the CommandSubstitution parts of a word, in order
RECURSIVE CommandTexts(_, _)
CommandTexts(parts, k) ==
  IF k > Len(parts) THEN <<>>
  ELSE (IF parts[k].type = "CommandSubstitution" THEN <<parts[k].command>> ELSE <<>>)
       \o CommandTexts(parts, k + 1)

\* C27: the command text of each CommandSubstitution part the parser makes
\* is the text the lexer delimited for that $(...): a parenthesis between
\* single or double quotes in the substitution neither ends it nor changes
\* the nesting depth, in the lexer and in the parser.
C27_Original ==
  pc \in {"translate", "done"} =>
    \A inner \in ScanBodies, after \in ScanAfter :
      bash = ScanInput(inner, after) =>
        /\ readCommandSubstitution(bash, 2).value = inner
        /\ CommandTexts(body[1].commands[1].args[1].parts, 1)
             = <<readCommandSubstitution(bash, 2).value>>

\* C28: when parse returns normally, every token before EOF has been
\* consumed into the AST: no command, word or redirect of the input is left
\* out of the output; the tokens after a `)` that closes no subshell are
\* translated or reported as an error.
C28_Original ==
  pc = "translate" => isAtEnd(tokens, pos)

\* C29: a dollar sign behind a backslash, in an unquoted word or between
\* double quotes, is emitted as literal text: the parser's second scan of the
\* token payload never makes a Variable or a CommandSubstitution part of it.
C29_Original ==
  (pc = "done" /\ bash \in EscInputs) =>
    /\ \A part \in ArgumentParts : part.type = "Literal"
    /\ ~Contains(result.powershell, "$env:")
    /\ ~Contains(result.powershell, "$args")
    /\ ~Contains(result.powershell, "$LASTEXITCODE")
    /\ ~Contains(result.powershell, "$(b)")

\* C30: the tokens that follow a heredoc delimiter on the operator's line are
\* lexed like any other tokens and reach the output: reading the heredoc
\* body does not discard the rest of the line.
C30_Original ==
  \A operator \in DocOperators, after \in DocRest, text \in DocBodies :
    (pc = "done" /\ bash = DocInput("", operator, after, text)) =>
      /\ \E k \in 1..Len(tokens) : isWordToken(tokens[k]) /\ tokens[k].value = "k"
      /\ Contains(result.powershell, "k")

=============================================================================
